---- MODULE Spec2Model ----
(***************************************************************************)
(* The placement state machine of the Excel AI task pane (App.tsx): the    *)
(* pending result, the handlers that place or discard it, the text         *)
(* protocol of handleSend, and the worksheet reads and writes they issue.  *)
(*                                                                         *)
(* Texts are sequences of one-character strings, so trimming, case         *)
(* folding and the regular expressions of the source are computed.         *)
(* An optional value is a sequence of length at most one: << >> is null.   *)
(* Every handler is asynchronous: a handler in flight is a task whose pc   *)
(* names the await it is suspended in, and each action is the code that    *)
(* runs between two awaits.  The model follows the program for MaxEvents   *)
(* user actions.                                                           *)
(***************************************************************************)
EXTENDS Integers, Sequences, FiniteSets, Bags, TLC

(***************************************************************************)
(* Bounds of the model                                                     *)
(***************************************************************************)
MaxEvents == 5
NumRows == 4
NumCols == 3
MaxSheets == 2

(***************************************************************************)
(* Characters and texts                                                    *)
(***************************************************************************)
LowerLetters ==
  << "a","b","c","d","e","f","g","h","i","j","k","l","m",
     "n","o","p","q","r","s","t","u","v","w","x","y","z" >>

UpperLetters ==
  << "A","B","C","D","E","F","G","H","I","J","K","L","M",
     "N","O","P","Q","R","S","T","U","V","W","X","Y","Z" >>

DigitChars == << "0","1","2","3","4","5","6","7","8","9" >>

Range(s) == { s[i] : i \in DOMAIN s }

IsUpper(c) == c \in Range(UpperLetters)
IsLower(c) == c \in Range(LowerLetters)
IsDigit(c) == c \in Range(DigitChars)
IsSpace(c) == c \in {" ", "\n"}
IsWordChar(c) == IsUpper(c) \/ IsLower(c) \/ IsDigit(c) \/ c = "_"

IndexIn(s, c) == CHOOSE i \in DOMAIN s : s[i] = c

ToLowerChar(c) == IF IsUpper(c) THEN LowerLetters[IndexIn(UpperLetters, c)] ELSE c
ToUpperChar(c) == IF IsLower(c) THEN UpperLetters[IndexIn(LowerLetters, c)] ELSE c

ToLowerCase(s) == [i \in DOMAIN s |-> ToLowerChar(s[i])]
ToUpperCase(s) == [i \in DOMAIN s |-> ToUpperChar(s[i])]

DigitValue(c) == IndexIn(DigitChars, c) - 1

\* String.prototype.trim
Trim(s) ==
  LET keep == { i \in DOMAIN s : ~IsSpace(s[i]) }
  IN  IF keep = {} THEN << >>
      ELSE LET lo == CHOOSE i \in keep : \A j \in keep : i <= j
               hi == CHOOSE i \in keep : \A j \in keep : j <= i
           IN  SubSeq(s, lo, hi)

\* String.prototype.includes
Includes(s, sub) ==
  \E i \in 0..(Len(s) - Len(sub)) : SubSeq(s, i + 1, i + Len(sub)) = sub

\* String.prototype.startsWith
StartsWith(s, pre) == Len(s) >= Len(pre) /\ SubSeq(s, 1, Len(pre)) = pre

\* /^[A-Z]+[0-9]+$/
IsCellAddress(s) ==
  \E k \in 1..(Len(s) - 1) :
     /\ \A i \in 1..k : IsUpper(s[i])
     /\ \A i \in (k + 1)..Len(s) : IsDigit(s[i])

\* /^[A-Z]+[0-9]+$/i
IsCellAddressI(s) == IsCellAddress(ToUpperCase(s))

\* decimal numeral of a natural number
RECURSIVE NatToText(_)
NatToText(n) ==
  IF n < 10 THEN << DigitChars[n + 1] >>
  ELSE NatToText(n \div 10) \o << DigitChars[(n % 10) + 1] >>

\* value of a run of digits
RECURSIVE DigitsToNat(_)
DigitsToNat(s) ==
  IF s = << >> THEN 0
  ELSE 10 * DigitsToNat(SubSeq(s, 1, Len(s) - 1)) + DigitValue(s[Len(s)])

\* end of the maximal run of characters satisfying a class, starting at i
\* (i - 1 when s[i] is not in the class)
RECURSIVE DigitRunEnd(_, _)
DigitRunEnd(s, i) ==
  IF i <= Len(s) /\ IsDigit(s[i]) THEN DigitRunEnd(s, i + 1) ELSE i - 1

RECURSIVE WordRunEnd(_, _)
WordRunEnd(s, i) ==
  IF i <= Len(s) /\ IsWordChar(s[i]) THEN WordRunEnd(s, i + 1) ELSE i - 1

RECURSIVE SpaceRunEnd(_, _)
SpaceRunEnd(s, i) ==
  IF i <= Len(s) /\ IsSpace(s[i]) THEN SpaceRunEnd(s, i + 1) ELSE i - 1

(***************************************************************************)
(* Cell values: a text or a number (kept as its canonical decimal text)    *)
(***************************************************************************)
Str(s) == [t |-> "str", v |-> s]
Num(s) == [t |-> "num", v |-> s]
EmptyVal == Str(<< >>)

\* cur !== null && cur !== ""
NonEmpty(val) == val # EmptyVal

\* JavaScript truthiness of a cell value: "" and 0 are falsy
Truthy(val) == val # EmptyVal /\ val # Num(<< "0" >>)

\* a cell without value that carries a format (format.font.bold = true)
FormattedBlank == [t |-> "fmt", v |-> << >>]

\* range.values of a cell
ValueOf(cell) == IF cell = FormattedBlank THEN EmptyVal ELSE cell

\* the cell counts for getUsedRangeOrNullObject(): it has a value or a format
InUse(cell) == cell # EmptyVal

\* the regular expression [-+]?[0-9]*\.?[0-9]+ anchored at position j, sign excluded
RestMatchAt(s, j) ==
  /\ j <= Len(s)
  /\ \/ IsDigit(s[j])
     \/ s[j] = "." /\ j + 1 <= Len(s) /\ IsDigit(s[j + 1])

SignTaken(s, i) == s[i] \in {"-", "+"} /\ RestMatchAt(s, i + 1)

NumberMatchAt(s, i) == RestMatchAt(s, i) \/ SignTaken(s, i)

\* last position of the greedy match of [0-9]*\.?[0-9]+ from j
RestMatchEnd(s, j) ==
  LET k == DigitRunEnd(s, j)
  IN  IF k + 2 <= Len(s) /\ s[k + 1] = "." /\ IsDigit(s[k + 2])
      THEN DigitRunEnd(s, k + 2)
      ELSE k

HasNumber(s) == \E i \in DOMAIN s : NumberMatchAt(s, i)

\* m[0] of note.match(/[-+]?[0-9]*\.?[0-9]+/): the leftmost match
NumberMatch(s) ==
  LET i == CHOOSE a \in DOMAIN s :
              NumberMatchAt(s, a) /\ \A b \in DOMAIN s : NumberMatchAt(s, b) => a <= b
      j == IF SignTaken(s, i) THEN i + 1 ELSE i
  IN  SubSeq(s, i, RestMatchEnd(s, j))

RECURSIVE StripTrailingZeros(_)
StripTrailingZeros(s) ==
  IF s # << >> /\ s[Len(s)] = "0" THEN StripTrailingZeros(SubSeq(s, 1, Len(s) - 1)) ELSE s

\* parseFloat of a matched numeral, as the canonical decimal text of the number
ParseFloat(m) ==
  LET neg == m[1] = "-"
      body == IF m[1] \in {"-", "+"} THEN Tail(m) ELSE m
      dots == { i \in DOMAIN body : body[i] = "." }
      dot == IF dots = {} THEN Len(body) + 1 ELSE CHOOSE i \in dots : TRUE
      int == NatToText(DigitsToNat(SubSeq(body, 1, dot - 1)))
      frac == StripTrailingZeros(SubSeq(body, dot + 1, Len(body)))
      mag == int \o (IF frac = << >> THEN << >> ELSE << "." >> \o frac)
  IN  IF neg /\ mag # << "0" >> THEN << "-" >> \o mag ELSE mag

\* const value = m ? parseFloat(m[0]) : note
ResultValue(note) == IF HasNumber(note) THEN Num(ParseFloat(NumberMatch(note))) ELSE Str(note)

(***************************************************************************)
(* Worksheets: a grid of cells, addressed by A1-style texts                *)
(***************************************************************************)
Rows == 1..NumRows
Cols == 1..NumCols

EmptyGrid == [r \in Rows |-> [c \in Cols |-> EmptyVal]]

LetterRunEnd(s) ==
  LET ups == { k \in DOMAIN s : \A i \in 1..k : IsUpper(s[i]) }
  IN  IF ups = {} THEN 0 ELSE CHOOSE k \in ups : \A j \in ups : j <= k

RECURSIVE ColumnNumber(_)
ColumnNumber(letters) ==
  IF letters = << >> THEN 0
  ELSE 26 * ColumnNumber(SubSeq(letters, 1, Len(letters) - 1))
         + IndexIn(UpperLetters, letters[Len(letters)])

AddrCol(addr) == ColumnNumber(SubSeq(addr, 1, LetterRunEnd(addr)))
AddrRow(addr) == DigitsToNat(SubSeq(addr, LetterRunEnd(addr) + 1, Len(addr)))

InGrid(addr) == IsCellAddress(addr) /\ AddrRow(addr) \in Rows /\ AddrCol(addr) \in Cols

\* range.values[0][0] of sheet.getRange(addr): cells beyond the grid are blank
CellAt(grid, addr) ==
  IF InGrid(addr) THEN ValueOf(grid[AddrRow(addr)][AddrCol(addr)]) ELSE EmptyVal

SetCell(grid, addr, val) ==
  [grid EXCEPT ![AddrRow(addr)] = [@ EXCEPT ![AddrCol(addr)] = val]]

MinOf(S) == CHOOSE x \in S : \A y \in S : x <= y
MaxOf(S) == CHOOSE x \in S : \A y \in S : y <= x

UsedRows(grid) == { r \in Rows : \E c \in Cols : InUse(grid[r][c]) }
UsedCols(grid) == { c \in Cols : \E r \in Rows : InUse(grid[r][c]) }

\* usedRange.rowCount of getUsedRangeOrNullObject(): 0 for the null object
UsedRowCount(grid) ==
  IF UsedRows(grid) = {} THEN 0 ELSE MaxOf(UsedRows(grid)) - MinOf(UsedRows(grid)) + 1

\* usedRange.values || []: the rows of the minimal rectangle holding every cell in use
UsedValues(grid) ==
  IF UsedRows(grid) = {} THEN << >>
  ELSE LET top == MinOf(UsedRows(grid))
           left == MinOf(UsedCols(grid))
           nc == MaxOf(UsedCols(grid)) - left + 1
       IN  [i \in 1..UsedRowCount(grid) |-> [j \in 1..nc |-> ValueOf(grid[top + i - 1][left + j - 1])]]

(***************************************************************************)
(* findPlacementCell: the decision made from the used range                *)
(***************************************************************************)
HeaderMatches(h, columnName) ==
  Truthy(h) /\ Includes(ToLowerCase(h.v), ToLowerCase(columnName))

\* a variant that takes the first column whatever its header
TargetIndexFirst(values, columnName) == 0

\* headerRow.findIndex(...), zero-based, -1 when no header matches
TargetIndex(values, columnName) ==
  LET hits == { j \in DOMAIN values[1] : HeaderMatches(values[1][j], columnName) }
  IN  IF hits = {} THEN -1 ELSE MinOf(hits) - 1

\* the zero-based index of the last row after the header row whose cell in the
\* column is not blank, 0 when there is none
LastRow(values, targetIndex) ==
  LET filled == { i \in 1..(Len(values) - 1) : NonEmpty(values[i + 1][targetIndex + 1]) }
  IN  IF filled = {} THEN 0 ELSE MaxOf(filled)

NextRow(lastRow) == lastRow + 2

\* the part of findPlacementCell that follows the first context.sync()
FindColumn(values, columnName) ==
  IF values = << >> THEN [found |-> FALSE, cellAddress |-> << "A", "1" >>]
  ELSE IF TargetIndex(values, columnName) = -1
       THEN [found |-> FALSE, cellAddress |-> << >>]
       ELSE LET targetIndex == TargetIndex(values, columnName)
                colLetter == UpperLetters[targetIndex + 1]
            IN  [found |-> TRUE,
                 cellAddress |-> << colLetter >> \o NatToText(NextRow(LastRow(values, targetIndex)))]

(***************************************************************************)
(* Results sheet names                                                     *)
(***************************************************************************)
ResultsPrefix == << "A","I","_","R","e","s","u","l","t","s" >>

\* m.split("_").pop()
LastPiece(s) ==
  LET us == { i \in DOMAIN s : s[i] = "_" }
  IN  IF us = {} THEN s ELSE SubSeq(s, MaxOf(us) + 1, Len(s))

\* parseInt(p || "0"), with NaN replaced by 0
ParseIntOrZero(p) ==
  LET neg == p # << >> /\ p[1] = "-"
      body == IF p # << >> /\ p[1] \in {"-", "+"} THEN Tail(p) ELSE p
      n == DigitsToNat(SubSeq(body, 1, DigitRunEnd(body, 1)))
  IN  IF neg THEN 0 - n ELSE n

\* a variant that counts the results sheets instead of reading their numbers
NextResultsCount(names) ==
  Cardinality({ i \in DOMAIN names : StartsWith(names[i], ResultsPrefix) }) + 1

\* the number of the next AI_Results_<n> sheet
NextResultsNumber(names) ==
  LET matches == { i \in DOMAIN names : StartsWith(names[i], ResultsPrefix) }
      nums == { ParseIntOrZero(LastPiece(names[i])) : i \in matches }
  IN  IF matches = {} THEN 1 ELSE MaxOf(nums) + 1

ResultsSheetName(n) == ResultsPrefix \o << "_" >> \o NatToText(n)

(***************************************************************************)
(* Texts of the protocol                                                   *)
(***************************************************************************)
OverwriteWord == << "o","v","e","r","w","r","i","t","e" >>

\* a variant of the phrase test that accepts every text beginning with the word
ConfirmsOverwritePrefix(text, addr) == StartsWith(text, OverwriteWord)

\* text === `overwrite` || text === `overwrite ${addr.toLowerCase()}`
ConfirmsOverwrite(text, addr) ==
  \/ text = OverwriteWord
  \/ text = OverwriteWord \o << " " >> \o ToLowerCase(addr)

\* userText.match(/sum\s+(\w+)/i): the positions where the expression matches
SumMatchAt(s, i) ==
  /\ i + 4 <= Len(s)
  /\ ToLowerCase(SubSeq(s, i, i + 2)) = << "s","u","m" >>
  /\ IsSpace(s[i + 3])
  /\ SpaceRunEnd(s, i + 3) + 1 <= Len(s)
  /\ IsWordChar(s[SpaceRunEnd(s, i + 3) + 1])

\* m ? m[1] : null
SuggestedColumn(userText) ==
  LET hits == { i \in DOMAIN userText : SumMatchAt(userText, i) }
  IN  IF hits = {} THEN << >>
      ELSE LET w == SpaceRunEnd(userText, MinOf(hits) + 3) + 1
           IN  SubSeq(userText, w, WordRunEnd(userText, w))

DefaultNote == << "[check]", " ", "D","o","n","e" >>

\* data.note || "Done" with its check mark
NoteOrDefault(note) == IF note = << >> THEN DefaultNote ELSE note

CellA1 == << "A", "1" >>

(***************************************************************************)
(* The cases the model draws from                                          *)
(***************************************************************************)
HeaderAmt == Str(<< "A","m","t" >>)

\* a used range that starts at B2: the header Amt in B2 and one value below it
GridOffset ==
  [EmptyGrid EXCEPT ![2] = [@ EXCEPT ![2] = HeaderAmt],
                    ![3] = [@ EXCEPT ![2] = Num(<< "5" >>)]]

InitialGrids == { GridOffset }

NoteSum == << "S","u","m",":"," ","4","2",".","5" >>
NoteChart == << "C","h","a","r","t" >>

\* the ok responses of the backend: a note, and whether a chart comes with it
Responses == { [note |-> NoteSum, chart |-> FALSE], [note |-> NoteChart, chart |-> TRUE] }

\* what the user types into the chat box
Inputs ==
  { OverwriteWord,
    << " ","O","v","e","r","W","r","i","t","e"," " >>,
    << "o","v","e","r","w","r","i","t","e"," ","a","2" >>,
    << "O","V","E","R","W","R","I","T","E"," ","B","2" >>,
    << "a","2" >>,
    << " ","B","2" >>,
    << "2","a" >>,
    << "s","u","m"," ","a","m","t" >>,
    << "h","i" >>,
    << " " >> }

SheetOne == << "S","h","e","e","t","1" >>

(***************************************************************************)
(* State                                                                   *)
(***************************************************************************)
VARIABLES
  sheets,            \* the workbook: worksheets in order, the first is the active one
  pendingPlacement,  \* useState pendingPlacement: << >> or << the pending result >>
  lastMessage,       \* the message the latest step pushed, "none" when it pushed none
  tasks,             \* the handlers in flight, each suspended in an await
  events,            \* the number of user actions so far
  pendingUpload      \* useState pendingUpload: << >> or << the uploaded file >>

vars == << sheets, pendingPlacement, lastMessage, tasks, events, pendingUpload >>

Pending == pendingPlacement[1]
HasPending == pendingPlacement # << >>
AwaitingOverwrite == HasPending /\ Pending.awaitingOverwrite # << >>
AwaitingCell == HasPending /\ Pending.awaitingCell
PendingPlain == HasPending /\ ~Pending.awaitingCell /\ Pending.awaitingOverwrite = << >>

ActiveCells == sheets[1].cells

SheetNames == [i \in DOMAIN sheets |-> sheets[i].name]

\* a handler in flight: its closure (pp, text) and its locals
\*   pp        the pendingPlacement the handler was created with
\*   text      the input the handler was created with
\*   addr      the cell address it reads or writes
\*   overwrite the overwrite argument of its writeResult call
\*   cur       the value its writeResult call read in the target cell
\*   sheet     the index of the worksheet it reads and writes
\*   name      the name of the sheet it is about to add
\*   createNew the argument of handlePlaceOnResultsSheet
\*   pu        the pendingUpload the handler was created with
\*   hasHeader the hasHeader local of appendUploadToActiveSheetVertical
\*   at        the left and top insertChartImageOnSheet's fallback computed
\*   added     the images the handler's insertChartImageOnSheet call has added
Task(kind, pc, pp, text, addr, overwrite) ==
  [kind |-> kind, pc |-> pc, pp |-> pp, text |-> text, addr |-> addr,
   overwrite |-> overwrite, cur |-> EmptyVal, sheet |-> 1, name |-> << >>,
   createNew |-> FALSE, pu |-> << >>, hasHeader |-> FALSE, at |-> << >>,
   added |-> 0]

\* a handler of the upload flow in flight
UploadTask(kind, pc, pu) ==
  [Task(kind, pc, << >>, << >>, << >>, FALSE) EXCEPT !.pu = pu]

Running == BagToSet(tasks)
Spawn(t) == tasks (+) SetToBag({t})
Finish(t) == tasks (-) SetToBag({t})
Step(t, u) == (tasks (-) SetToBag({t})) (+) SetToBag({u})

Init ==
  /\ \E g \in InitialGrids : sheets = << [name |-> SheetOne, cells |-> g, images |-> 0] >>
  /\ pendingPlacement = << >>
  /\ lastMessage = "none"
  /\ tasks = EmptyBag
  /\ events = 0
  /\ pendingUpload = << >>

\* one more user action
UserAction == events < MaxEvents /\ events' = events + 1

(***************************************************************************)
(* The user's actions.  The text t is the content of the chat box when     *)
(* Enter is pressed or the send button is clicked.                         *)
(***************************************************************************)

\* handleSend, awaiting overwrite, the confirmation phrase was typed
SendConfirmOverwrite(t) ==
  /\ UserAction
  /\ AwaitingOverwrite
  /\ LET text == ToLowerCase(Trim(t))
         addr == Pending.awaitingOverwrite[1].addr
     IN  /\ ConfirmsOverwrite(text, addr)
         /\ tasks' = Spawn(Task("confirm", IF Pending.chart THEN "chart" ELSE "wr_read",
                                pendingPlacement, t, addr, ~Pending.chart))
  /\ lastMessage' = "none"
  /\ UNCHANGED << pendingUpload, sheets, pendingPlacement >>

\* a variant of the rejection that drops the pending result
SendRejectOverwriteClears(t) ==
  /\ UserAction
  /\ AwaitingOverwrite
  /\ ~ConfirmsOverwrite(ToLowerCase(Trim(t)), Pending.awaitingOverwrite[1].addr)
  /\ lastMessage' = "confirm_overwrite_prompt"
  /\ pendingPlacement' = << >>
  /\ UNCHANGED << pendingUpload, sheets, tasks >>

\* handleSend, awaiting overwrite, any other text
SendRejectOverwrite(t) ==
  /\ UserAction
  /\ AwaitingOverwrite
  /\ ~ConfirmsOverwrite(ToLowerCase(Trim(t)), Pending.awaitingOverwrite[1].addr)
  /\ lastMessage' = "confirm_overwrite_prompt"
  /\ UNCHANGED << pendingUpload, sheets, pendingPlacement, tasks >>

\* handleSend, awaiting a cell address, the text is no address
SendInvalidCell(t) ==
  /\ UserAction
  /\ ~AwaitingOverwrite
  /\ AwaitingCell
  /\ ~IsCellAddress(ToUpperCase(Trim(t)))
  /\ lastMessage' = "invalid_cell"
  /\ UNCHANGED << pendingUpload, sheets, pendingPlacement, tasks >>

\* handleSend, awaiting a cell address, the text is an address
SendCell(t) ==
  /\ UserAction
  /\ ~AwaitingOverwrite
  /\ AwaitingCell
  /\ LET addr == ToUpperCase(Trim(t))
     IN  /\ IsCellAddress(addr)
         /\ InGrid(addr)
         /\ tasks' = Spawn(Task("cell", "rd", pendingPlacement, t, addr, FALSE))
  /\ lastMessage' = "none"
  /\ UNCHANGED << pendingUpload, sheets, pendingPlacement >>

\* a variant of the block that sends the text to the backend
SendBlockedSends(t) ==
  /\ UserAction
  /\ PendingPlain
  /\ Trim(t) # << >>
  /\ tasks' = Spawn(Task("command", "fetch", << >>, Trim(t), << >>, FALSE))
  /\ lastMessage' = "user"
  /\ UNCHANGED << pendingUpload, sheets, pendingPlacement >>

\* handleSend and the send button, a result is pending and awaits no text
SendBlocked(t) ==
  /\ UserAction
  /\ PendingPlain
  /\ lastMessage' = "finish_placement"
  /\ UNCHANGED << pendingUpload, sheets, pendingPlacement, tasks >>

\* handleSend, nothing pending, blank text
SendBlank(t) ==
  /\ UserAction
  /\ ~HasPending
  /\ Trim(t) = << >>
  /\ lastMessage' = "none"
  /\ UNCHANGED << pendingUpload, sheets, pendingPlacement, tasks >>

\* handleSend, nothing pending: a new command.  getExcelData only reads the sheet into
\* the request, which the model does not hold, so the request is sent in this step
SendCommand(t) ==
  /\ UserAction
  /\ ~HasPending
  /\ Trim(t) # << >>
  /\ tasks' = Spawn(Task("command", "fetch", << >>, Trim(t), << >>, FALSE))
  /\ lastMessage' = "user"
  /\ UNCHANGED << pendingUpload, sheets, pendingPlacement >>

HandleSend(t) ==
  \/ SendConfirmOverwrite(t)
  \/ SendRejectOverwrite(t)
  \/ SendInvalidCell(t)
  \/ SendCell(t)
  \/ SendBlocked(t)
  \/ SendBlank(t)
  \/ SendCommand(t)

\* handlePlaceInExcelForChartOrBelow, up to its first await
HandlePlaceInExcelForChartOrBelow ==
  /\ UserAction
  /\ HasPending
  /\ tasks' = Spawn(IF Pending.chart
                    THEN Task("place", "chart", pendingPlacement, << >>, << >>, FALSE)
                    ELSE IF Pending.suggestedColumn # << >>
                         THEN Task("place", "find1", pendingPlacement, << >>, << >>, FALSE)
                         ELSE Task("place", "wr_read", pendingPlacement, << >>, CellA1, FALSE))
  /\ lastMessage' = "none"
  /\ UNCHANGED << pendingUpload, sheets, pendingPlacement >>

\* handlePlaceInSpecificCell: the button is rendered for a pending result without chart
HandlePlaceInSpecificCell ==
  /\ UserAction
  /\ HasPending
  /\ ~Pending.chart
  /\ pendingPlacement' = << [Pending EXCEPT !.awaitingCell = TRUE] >>
  /\ lastMessage' = "type_cell_prompt"
  /\ UNCHANGED << pendingUpload, sheets, tasks >>

\* clearPendingPlacement
ClearedPlacement == << >>

\* a variant of handleDontPlace that also drops the handlers in flight
HandleDontPlaceAborts ==
  /\ UserAction
  /\ HasPending
  /\ pendingPlacement' = << >>
  /\ lastMessage' = "placement_skipped"
  /\ tasks' = EmptyBag
  /\ UNCHANGED << pendingUpload, sheets >>

\* a variant of handleDontPlace that only pushes its message
HandleDontPlaceKeeps ==
  /\ UserAction
  /\ HasPending
  /\ lastMessage' = "placement_skipped"
  /\ UNCHANGED << pendingUpload, sheets, tasks, pendingPlacement >>

\* handleDontPlace
HandleDontPlace ==
  /\ UserAction
  /\ HasPending
  /\ pendingPlacement' = ClearedPlacement
  /\ lastMessage' = "placement_skipped"
  /\ UNCHANGED << pendingUpload, sheets, tasks >>

\* handlePlaceOnResultsSheet(createNew), up to its first await
HandlePlaceOnResultsSheet(createNew) ==
  /\ UserAction
  /\ HasPending
  /\ tasks' = Spawn([Task("results", "names", pendingPlacement, << >>, << >>, FALSE)
                       EXCEPT !.createNew = createNew])
  /\ lastMessage' = "none"
  /\ UNCHANGED << pendingUpload, sheets, pendingPlacement >>

(***************************************************************************)
(* writeResult, insertChartImageOnSheet                                    *)
(***************************************************************************)

\* variants of the occupancy check: one that never throws, one that ignores the flag
WriteResultNeverThrows(cur, overwrite) == FALSE
WriteResultThrowsDespiteFlag(cur, overwrite) == NonEmpty(cur)

\* cur !== null && cur !== "" && !overwrite
WriteResultThrows(cur, overwrite) == NonEmpty(cur) /\ ~overwrite

\* a variant that stores the note as it is
WriteResultValueText(note) == Str(note)

\* the value writeResult stores for a note
WriteResultValue(note) == ResultValue(note)

\* newSheet: the sheet names are read and the next AI_Results_<n> is chosen
WriteResultNames(t) ==
  /\ t.pc = "wr_names"
  /\ tasks' = Step(t, [t EXCEPT !.name = ResultsSheetName(NextResultsNumber(SheetNames)),
                                !.pc = "wr_add"])
  /\ lastMessage' = "none"
  /\ UNCHANGED << pendingUpload, sheets, pendingPlacement, events >>

\* the workbook has a sheet of this name: the host compares sheet names without regard
\* to letter case
NameInUse(name) == \E i \in DOMAIN sheets : ToLowerCase(sheets[i].name) = ToLowerCase(name)

\* sheets.add(newName); await context.sync(): a name in use makes the sync throw
AddSheet(t, next) ==
  /\ IF NameInUse(t.name)
     THEN /\ tasks' = Step(t, [t EXCEPT !.pc = "catch"])
          /\ sheets' = sheets
     ELSE /\ Len(sheets) < MaxSheets
          /\ sheets' = Append(sheets, [name |-> t.name, cells |-> EmptyGrid, images |-> 0])
          /\ tasks' = Step(t, [t EXCEPT !.sheet = Len(sheets) + 1, !.pc = next])
  /\ lastMessage' = "none"
  /\ UNCHANGED << pendingUpload, pendingPlacement, events >>

WriteResultAdd(t) == t.pc = "wr_add" /\ AddSheet(t, "wr_read")

\* range.load("values"); await context.sync(); and the checks around it
WriteResultRead(t) ==
  /\ t.pc = "wr_read"
  /\ LET cur == CellAt(sheets[t.sheet].cells, t.addr)
     IN  tasks' = Step(t, [t EXCEPT !.cur = cur,
                                    !.pc = IF \/ ~IsCellAddressI(t.addr)
                                              \/ WriteResultThrows(cur, t.overwrite)
                                           THEN "catch" ELSE "wr_flush"])
  /\ lastMessage' = "none"
  /\ UNCHANGED << pendingUpload, sheets, pendingPlacement, events >>

\* range.values = [[value]]; await context.sync()
WriteResultFlush(t) ==
  /\ t.pc = "wr_flush"
  /\ InGrid(t.addr)
  /\ sheets' = [sheets EXCEPT ![t.sheet].cells = SetCell(@, t.addr, WriteResultValue(t.pp[1].note))]
  /\ tasks' = Step(t, [t EXCEPT !.pc = "wr_done"])
  /\ lastMessage' = "none"
  /\ UNCHANGED << pendingUpload, pendingPlacement, events >>

\* insertChartImageOnSheet: the image is added to the sheet
InsertChartImage(t) ==
  /\ t.pc = "chart"
  /\ sheets' = [sheets EXCEPT ![t.sheet].images = @ + 1]
  /\ tasks' = Step(t, [t EXCEPT !.pc = "chart_done"])
  /\ lastMessage' = "none"
  /\ UNCHANGED << pendingUpload, pendingPlacement, events >>

(***************************************************************************)
(* handlePlaceInExcelForChartOrBelow after its first await                 *)
(***************************************************************************)

\* findPlacementCell: the used range is read
FindUsedRange(t) ==
  /\ t.kind = "place" /\ t.pc = "find1"
  /\ LET placement == FindColumn(UsedValues(ActiveCells), t.pp[1].suggestedColumn)
     IN  tasks' = Step(t, [t EXCEPT !.addr = placement.cellAddress,
                                    !.pc = IF placement.found THEN "find2" ELSE "not_found"])
  /\ lastMessage' = "none"
  /\ UNCHANGED << pendingUpload, sheets, pendingPlacement, events >>

\* findPlacementCell: the destination cell is read; a free cell goes on to writeResult
FindCell(t) ==
  /\ t.kind = "place" /\ t.pc = "find2"
  /\ LET occupied == NonEmpty(CellAt(ActiveCells, t.addr))
     IN  tasks' = Step(t, [t EXCEPT !.pc = IF occupied THEN "occupied" ELSE "wr_read"])
  /\ lastMessage' = "none"
  /\ UNCHANGED << pendingUpload, sheets, pendingPlacement, events >>

\* !placement.found, then the finally block
PlaceNotFound(t) ==
  /\ t.kind = "place" /\ t.pc = "not_found"
  /\ lastMessage' = "column_not_found"
  /\ pendingPlacement' = ClearedPlacement
  /\ tasks' = Finish(t)
  /\ UNCHANGED << pendingUpload, sheets, events >>

\* the state set by the occupied branch, before its return runs the finally block
PlaceOccupiedSet(t) ==
  << [t.pp[1] EXCEPT !.awaitingOverwrite = << [addr |-> t.addr, chart |-> FALSE] >>] >>

\* the finally block of handlePlaceInExcelForChartOrBelow, applied to what the try block set
PlaceFinally(set) == ClearedPlacement

\* placement.occupied: the prompt, setPendingPlacement, return, and the finally block
PlaceOccupied(t) ==
  /\ t.kind = "place" /\ t.pc = "occupied"
  /\ lastMessage' = "overwrite_prompt"
  /\ pendingPlacement' = PlaceFinally(PlaceOccupiedSet(t))
  /\ tasks' = Finish(t)
  /\ UNCHANGED << pendingUpload, sheets, events >>

\* writeResult or insertChartImageOnSheet returned, then the finally block
PlaceDone(t) ==
  /\ t.kind = "place" /\ t.pc \in {"wr_done", "chart_done"}
  /\ lastMessage' = IF t.pc = "chart_done" THEN "chart_placed" ELSE "result_placed"
  /\ pendingPlacement' = PlaceFinally(pendingPlacement)
  /\ tasks' = Finish(t)
  /\ UNCHANGED << pendingUpload, sheets, events >>

\* the catch block, then the finally block
PlaceFailed(t) ==
  /\ t.kind = "place" /\ t.pc = "catch"
  /\ lastMessage' = "failed_to_place"
  /\ pendingPlacement' = PlaceFinally(pendingPlacement)
  /\ tasks' = Finish(t)
  /\ UNCHANGED << pendingUpload, sheets, events >>

(***************************************************************************)
(* handleSend after its first await                                        *)
(***************************************************************************)

\* overwrite branch: writeResult(note, false, addr, true) returned, clearPendingPlacement()
ConfirmDone(t) ==
  /\ t.kind = "confirm" /\ t.pc \in {"wr_done", "chart_done"}
  /\ lastMessage' = IF t.pc = "chart_done" THEN "chart_placed" ELSE "overwrote"
  /\ pendingPlacement' = ClearedPlacement
  /\ tasks' = Finish(t)
  /\ UNCHANGED << pendingUpload, sheets, events >>

\* what the cell branch sets when the cell it read is occupied
CellOccupiedSet(t) ==
  << [t.pp[1] EXCEPT !.awaitingCell = FALSE,
                     !.awaitingOverwrite = << [addr |-> t.addr, chart |-> FALSE] >>] >>

\* cell branch: the typed cell is read inside Excel.run; an occupied cell sets the
\* overwrite state and returns from the callback, a free cell goes on to writeResult
CellRead(t) ==
  /\ t.kind = "cell" /\ t.pc = "rd"
  /\ IF NonEmpty(CellAt(ActiveCells, t.addr))
     THEN /\ lastMessage' = "overwrite_prompt"
          /\ pendingPlacement' = CellOccupiedSet(t)
          /\ tasks' = Step(t, [t EXCEPT !.pc = "occupied_ret"])
     ELSE /\ lastMessage' = "none"
          /\ pendingPlacement' = pendingPlacement
          /\ tasks' = Step(t, [t EXCEPT !.pc = IF t.pp[1].chart THEN "chart" ELSE "wr_read"])
  /\ UNCHANGED << pendingUpload, sheets, events >>

\* cell branch: writeResult returned inside the Excel.run callback
CellWritten(t) ==
  /\ t.kind = "cell" /\ t.pc \in {"wr_done", "chart_done"}
  /\ lastMessage' = IF t.pc = "chart_done" THEN "chart_placed" ELSE "result_placed"
  /\ tasks' = Step(t, [t EXCEPT !.pc = "ret"])
  /\ UNCHANGED << pendingUpload, sheets, pendingPlacement, events >>

\* cell branch: Excel.run returned, from either return of its callback: clearPendingPlacement()
CellReturn(t) ==
  /\ t.kind = "cell" /\ t.pc \in {"ret", "occupied_ret"}
  /\ lastMessage' = "none"
  /\ pendingPlacement' = ClearedPlacement
  /\ tasks' = Finish(t)
  /\ UNCHANGED << pendingUpload, sheets, events >>

\* cell branch: the catch block
CellFailed(t) ==
  /\ t.kind = "cell" /\ t.pc = "catch"
  /\ lastMessage' = "failed_to_place"
  /\ tasks' = Finish(t)
  /\ UNCHANGED << pendingUpload, sheets, pendingPlacement, events >>

\* the pending result made from an ok response
NewPlacement(userText, r) ==
  << [note |-> NoteOrDefault(r.note), chart |-> r.chart,
      suggestedColumn |-> SuggestedColumn(userText),
      awaitingCell |-> FALSE, awaitingOverwrite |-> << >>] >>

\* command flow: an ok response, one of responses, arrived
CommandAnswered(t, responses) ==
  /\ t.kind = "command" /\ t.pc = "fetch"
  /\ \E r \in responses : pendingPlacement' = NewPlacement(t.text, r)
  /\ lastMessage' = "ai_preview"
  /\ tasks' = Finish(t)
  /\ UNCHANGED << pendingUpload, sheets, events >>

CommandOk(t) == CommandAnswered(t, Responses)

\* command flow: no data, ok = false, or the request threw
CommandRejected(t) ==
  /\ t.kind = "command" /\ t.pc = "fetch"
  /\ \E m \in {"no_response", "backend_error", "network_error"} : lastMessage' = m
  /\ tasks' = Finish(t)
  /\ UNCHANGED << pendingUpload, sheets, pendingPlacement, events >>

(***************************************************************************)
(* handlePlaceOnResultsSheet after its first await                         *)
(***************************************************************************)

\* the characters of the texts in code-unit order, the order Array.prototype.sort uses
CodeUnitOrder == << " ", "+", "-", "." >> \o DigitChars \o << ":" >> \o UpperLetters
                 \o << "_" >> \o LowerLetters

CodeUnit(c) == IndexIn(CodeUnitOrder, c)

\* a sorts before b
SortsBefore(a, b) ==
  \/ Len(a) < Len(b) /\ SubSeq(b, 1, Len(a)) = a
  \/ \E k \in 1..MinOf({Len(a), Len(b)}) :
       /\ SubSeq(a, 1, k - 1) = SubSeq(b, 1, k - 1)
       /\ CodeUnit(a[k]) < CodeUnit(b[k])

\* names.filter(n => n.startsWith("AI_Results"))
ResultsMatches(names) == { names[i] : i \in { j \in DOMAIN names : StartsWith(names[j], ResultsPrefix) } }

\* matches.sort(); matches[matches.length - 1]
LatestResultsSheet(names) ==
  CHOOSE m \in ResultsMatches(names) : \A n \in ResultsMatches(names) : n = m \/ SortsBefore(n, m)

\* targetSheetName after the first Excel.run: << >> is null
TargetSheetName(names, createNew) ==
  IF ResultsMatches(names) = {} \/ createNew THEN << >> ELSE << LatestResultsSheet(names) >>

SheetIndex(name) == CHOOSE i \in DOMAIN sheets : sheets[i].name = name

\* note.replace(/^[^a-zA-Z0-9]+/, "")
RECURSIVE StripLeadingSymbols(_)
StripLeadingSymbols(s) ==
  IF s = << >> \/ IsUpper(s[1]) \/ IsLower(s[1]) \/ IsDigit(s[1]) THEN s
  ELSE StripLeadingSymbols(Tail(s))

\* .replace(/\n+/g, " ")
RECURSIVE ReplaceNewlines(_)
ReplaceNewlines(s) ==
  IF s = << >> THEN << >>
  ELSE IF s[1] = "\n"
       THEN IF Len(s) > 1 /\ s[2] = "\n" THEN ReplaceNewlines(Tail(s))
            ELSE << " " >> \o ReplaceNewlines(Tail(s))
       ELSE << s[1] >> \o ReplaceNewlines(Tail(s))

CleanText(note) == Trim(ReplaceNewlines(StripLeadingSymbols(note)))

\* the first Excel.run: the sheet names are read and the target is chosen
ResultsNames(t) ==
  /\ t.kind = "results" /\ t.pc = "names"
  /\ LET target == TargetSheetName(SheetNames, t.createNew)
     IN  tasks' = Step(t,
           IF target = << >>
           THEN [t EXCEPT !.addr = CellA1,
                          !.pc = IF t.pp[1].chart THEN "mint_names" ELSE "wr_names"]
           ELSE [t EXCEPT !.sheet = SheetIndex(target[1]),
                          !.pc = IF t.pp[1].chart THEN "chart" ELSE "append_read"])
  /\ lastMessage' = "none"
  /\ UNCHANGED << pendingUpload, sheets, pendingPlacement, events >>

\* chart without target: the names are read again and the next name is chosen
ResultsMintNames(t) ==
  /\ t.kind = "results" /\ t.pc = "mint_names"
  /\ tasks' = Step(t, [t EXCEPT !.name = ResultsSheetName(NextResultsNumber(SheetNames)),
                                !.pc = "mint_add"])
  /\ lastMessage' = "none"
  /\ UNCHANGED << pendingUpload, sheets, pendingPlacement, events >>

\* chart without target: sheets.add(newName); await context.sync()
ResultsMintAdd(t) == t.kind = "results" /\ t.pc = "mint_add" /\ AddSheet(t, "chart")

\* the row the appended text goes to
PutCell(rowCount) == << "A" >> \o NatToText(rowCount + 1)

\* usedRange.rowCount of getUsedRange(), which is the top left cell on a sheet with no
\* cell in use
BackupUsedRowCount(grid) == IF UsedRows(grid) = {} THEN 1 ELSE UsedRowCount(grid)

\* putCell of the backup component: row = (used.rowCount ?? 0) + 1, putCell = A(row + 1)
BackupPutCell(rowCount) == << "A" >> \o NatToText((rowCount + 1) + 1)

\* append: used.load("rowCount"); await context.sync()
ResultsAppendRead(t) ==
  /\ t.kind = "results" /\ t.pc = "append_read"
  /\ tasks' = Step(t, [t EXCEPT !.addr = PutCell(UsedRowCount(sheets[t.sheet].cells)),
                                !.pc = "append_flush"])
  /\ lastMessage' = "none"
  /\ UNCHANGED << pendingUpload, sheets, pendingPlacement, events >>

\* append: range.values = [[descriptiveText]]; await context.sync(); pushMessage
ResultsAppendFlush(t) ==
  /\ t.kind = "results" /\ t.pc = "append_flush"
  /\ InGrid(t.addr)
  /\ sheets' = [sheets EXCEPT ![t.sheet].cells = SetCell(@, t.addr, Str(CleanText(t.pp[1].note)))]
  /\ tasks' = Step(t, [t EXCEPT !.pc = "append_done"])
  /\ lastMessage' = "result_appended"
  /\ UNCHANGED << pendingUpload, pendingPlacement, events >>

\* writeResult(note, true, "A1") returned: the message, clearPendingPlacement(), return
ResultsCreated(t) ==
  /\ t.kind = "results" /\ t.pc = "wr_done"
  /\ lastMessage' = "result_created"
  /\ pendingPlacement' = ClearedPlacement
  /\ tasks' = Finish(t)
  /\ UNCHANGED << pendingUpload, sheets, events >>

\* the chart was inserted or the text appended: clearPendingPlacement()
ResultsDone(t) ==
  /\ t.kind = "results" /\ t.pc \in {"chart_done", "append_done"}
  /\ lastMessage' = IF t.pc = "chart_done" THEN "chart_placed_on" ELSE "none"
  /\ pendingPlacement' = ClearedPlacement
  /\ tasks' = Finish(t)
  /\ UNCHANGED << pendingUpload, sheets, events >>

\* the catch block: the pending result is kept
ResultsFailed(t) ==
  /\ t.kind = "results" /\ t.pc = "catch"
  /\ lastMessage' = "failed_results_sheet"
  /\ tasks' = Finish(t)
  /\ UNCHANGED << pendingUpload, sheets, pendingPlacement, events >>

(***************************************************************************)
(* The program                                                             *)
(***************************************************************************)
Next ==
  \/ \E t \in Inputs : HandleSend(t)
  \/ HandlePlaceInExcelForChartOrBelow
  \/ HandlePlaceInSpecificCell
  \/ HandleDontPlace
  \/ \E createNew \in BOOLEAN : HandlePlaceOnResultsSheet(createNew)
  \/ \E t \in Running : WriteResultNames(t)
  \/ \E t \in Running : WriteResultAdd(t)
  \/ \E t \in Running : WriteResultRead(t)
  \/ \E t \in Running : WriteResultFlush(t)
  \/ \E t \in Running : InsertChartImage(t)
  \/ \E t \in Running : FindUsedRange(t)
  \/ \E t \in Running : FindCell(t)
  \/ \E t \in Running : PlaceNotFound(t)
  \/ \E t \in Running : PlaceOccupied(t)
  \/ \E t \in Running : PlaceDone(t)
  \/ \E t \in Running : PlaceFailed(t)
  \/ \E t \in Running : ConfirmDone(t)
  \/ \E t \in Running : CellRead(t)
  \/ \E t \in Running : CellWritten(t)
  \/ \E t \in Running : CellReturn(t)
  \/ \E t \in Running : CellFailed(t)
  \/ \E t \in Running : CommandOk(t)
  \/ \E t \in Running : CommandRejected(t)
  \/ \E t \in Running : ResultsNames(t)
  \/ \E t \in Running : ResultsMintNames(t)
  \/ \E t \in Running : ResultsMintAdd(t)
  \/ \E t \in Running : ResultsAppendRead(t)
  \/ \E t \in Running : ResultsAppendFlush(t)
  \/ \E t \in Running : ResultsCreated(t)
  \/ \E t \in Running : ResultsDone(t)
  \/ \E t \in Running : ResultsFailed(t)

Spec == Init /\ [][Next]_vars

(***************************************************************************)
(* The placement functions on a range of workbooks and notes: the program  *)
(* is followed for CaseEvents user actions from each workbook of           *)
(* CaseWorkbooks, with the backend answering from CaseResponses.           *)
(***************************************************************************)
CaseEvents == 3

NoteUnits == << "S","u","m",":"," ","4","2",".","5"," ","u","n","i","t","s" >>
NoteNegative == << "T","o","t","a","l"," ","-","3" >>
NoteWords == << "A","l","l"," ","d","o","n","e" >>
NoteVersion == << "v","1",".","2",".","3" >>
NotePlusFraction == << "+",".","5","0"," ","u","p" >>
NoteLeadingZeros == << "0","0","7" >>

CaseNotes ==
  { NoteUnits, NoteNegative, NoteWords, NoteVersion, NotePlusFraction, NoteLeadingZeros, << >> }

CaseResponses ==
  { [note |-> n, chart |-> FALSE] : n \in CaseNotes } \cup { [note |-> NoteChart, chart |-> TRUE] }

\* a command that names the column Amt, in another letter case, and one that names none
CaseCommands == { << "S","u","m"," ","A","M","T" >>, << "h","i" >> }

HeaderQty == Str(<< "Q","t","y" >>)

\* a table anchored at A1: headers Amt and Qty, one row of values
GridTable ==
  [EmptyGrid EXCEPT ![1] = [@ EXCEPT ![1] = HeaderAmt, ![2] = HeaderQty],
                    ![2] = [@ EXCEPT ![1] = Num(<< "5" >>), ![2] = Num(<< "2" >>)]]

\* a table whose Amt column has a gap: the value sits two rows under the header
GridGap ==
  [EmptyGrid EXCEPT ![1] = [@ EXCEPT ![1] = HeaderAmt, ![2] = HeaderQty],
                    ![2] = [@ EXCEPT ![2] = Num(<< "2" >>)],
                    ![3] = [@ EXCEPT ![1] = Num(<< "5" >>)]]

\* no header contains Amt
GridNoMatch ==
  [EmptyGrid EXCEPT ![1] = [@ EXCEPT ![1] = HeaderQty],
                    ![2] = [@ EXCEPT ![1] = Num(<< "2" >>)]]

\* the used range A2:B3 with the header Amt in B2 and values in A3 and B3
GridBeside ==
  [GridOffset EXCEPT ![3] = [@ EXCEPT ![1] = Num(<< "7" >>)]]

CaseGrids == { EmptyGrid, GridOffset, GridTable, GridGap, GridNoMatch, GridBeside }

SheetOther == << "O","t","h","e","r" >>
SheetResults == ResultsPrefix
SheetResults1 == ResultsSheetName(1)
SheetResults3 == ResultsSheetName(3)
SheetResults10 == ResultsSheetName(10)
SheetResultsLower == ToLowerCase(SheetResults1)

Worksheet(name, cells) == [name |-> name, cells |-> cells, images |-> 0]

\* the sheet lists of the workbooks, after the active sheet
CaseSheetLists ==
  { << >>,
    << SheetOther >>,
    << SheetResults1, SheetResults3, SheetOther >>,
    << SheetResults10, SheetResults3 >>,
    << SheetResults >>,
    << SheetResultsLower >> }

\* a results sheet whose used range is A2:B3
WorkbookOffsetResults ==
  << Worksheet(SheetOne, GridTable), Worksheet(SheetResults1, GridBeside) >>

CaseWorkbooks ==
  { << Worksheet(SheetOne, g) >> : g \in CaseGrids }
    \cup { << Worksheet(SheetOne, GridTable) >> \o [i \in DOMAIN l |-> Worksheet(l[i], EmptyGrid)] :
             l \in CaseSheetLists }
    \cup { WorkbookOffsetResults }

\* the addresses typed for a specific cell: A4 is blank in every grid, B2 holds a value in most
CaseTexts == { << "a","4" >>, << " ","B","2" >> }

InitCases ==
  /\ sheets \in CaseWorkbooks
  /\ pendingPlacement = << >>
  /\ lastMessage = "none"
  /\ tasks = EmptyBag
  /\ events = 0
  /\ pendingUpload = << >>

NextCases ==
  \/ events < CaseEvents /\ \E t \in CaseCommands : SendCommand(t)
  \/ events < CaseEvents /\ HandlePlaceInExcelForChartOrBelow
  \/ events < CaseEvents /\ \E createNew \in BOOLEAN : HandlePlaceOnResultsSheet(createNew)
  \/ events < CaseEvents /\ HandlePlaceInSpecificCell
  \/ events < CaseEvents /\ \E t \in CaseTexts : SendCell(t)
  \/ \E t \in Running : CommandAnswered(t, CaseResponses)
  \/ \E t \in Running : CellRead(t)
  \/ \E t \in Running : CellWritten(t)
  \/ \E t \in Running : CellReturn(t)
  \/ \E t \in Running : ResultsFailed(t)
  \/ \E t \in Running : WriteResultNames(t)
  \/ \E t \in Running : WriteResultAdd(t)
  \/ \E t \in Running : WriteResultRead(t)
  \/ \E t \in Running : WriteResultFlush(t)
  \/ \E t \in Running : InsertChartImage(t)
  \/ \E t \in Running : FindUsedRange(t)
  \/ \E t \in Running : FindCell(t)
  \/ \E t \in Running : PlaceNotFound(t)
  \/ \E t \in Running : PlaceOccupied(t)
  \/ \E t \in Running : PlaceDone(t)
  \/ \E t \in Running : PlaceFailed(t)
  \/ \E t \in Running : ResultsNames(t)
  \/ \E t \in Running : ResultsMintNames(t)
  \/ \E t \in Running : ResultsMintAdd(t)
  \/ \E t \in Running : ResultsAppendRead(t)
  \/ \E t \in Running : ResultsAppendFlush(t)
  \/ \E t \in Running : ResultsCreated(t)
  \/ \E t \in Running : ResultsDone(t)

SpecCases == InitCases /\ [][NextCases]_vars

(***************************************************************************)
(* Uploads: the file input, the pending upload and its buttons.  The       *)
(* program is followed for UploadEvents user actions from each workbook    *)
(* of UploadWorkbooks, with the backend answering from Uploads.            *)
(***************************************************************************)
UploadEvents == 4

HeaderX == Str(<< "X" >>)
HeaderY == Str(<< "Y" >>)

FileData == << "d","a","t","a",".","c","s","v" >>

\* a name of 36 characters, 28 of them left by the two replacements
FileLong ==
  << "m","o","n","t","h","l","y"," ","s","a","l","e","s"," ","r","e","p","o","r","t"," ",
     "(","f","i","n","a","l",")",".","v","2",".","x","l","s","x" >>

\* what the backend returned for the file: original_name, headers and rows_no_header
UploadColumn ==
  [fileName |-> FileData, headers |-> << HeaderX >>,
   rows |-> << << Num(<< "1" >>) >>, << Num(<< "2" >>) >> >>]
UploadPair ==
  [fileName |-> FileLong, headers |-> << HeaderX, HeaderY >>,
   rows |-> << << Num(<< "1" >>), Num(<< "2" >>) >> >>]
UploadHeadersOnly ==
  [fileName |-> FileData, headers |-> << HeaderX >>, rows |-> << >>]
\* a file whose header cell is blank
UploadBlank ==
  [fileName |-> FileData, headers |-> << EmptyVal >>,
   rows |-> << << Num(<< "1" >>) >>, << Num(<< "2" >>) >> >>]

\* the values of Date.now() % 10000 when Create new sheet is clicked
Stamps == { 7, 4321 }

\* the command typed while an upload is pending, and the answer of the backend
UploadCommands == { << "h","i" >> }
UploadResponses == { [note |-> NoteWords, chart |-> FALSE] }

Uploads == { UploadColumn, UploadPair, UploadHeadersOnly, UploadBlank }

\* headers in A1:B1 and a value in C2, to the right of the last header
GridRagged ==
  [EmptyGrid EXCEPT ![1] = [@ EXCEPT ![1] = HeaderAmt, ![2] = HeaderQty],
                    ![2] = [@ EXCEPT ![3] = Num(<< "9" >>)]]

\* one header in A1
GridHeader == [EmptyGrid EXCEPT ![1] = [@ EXCEPT ![1] = HeaderAmt]]

UploadGrids == { EmptyGrid, GridHeader, GridTable, GridRagged, GridOffset }

UploadWorkbooks == { << Worksheet(SheetOne, g) >> : g \in UploadGrids }

HasUpload == pendingUpload # << >>

\* the zero-based index of the last non-blank cell of the row, -1 when there is none
LastFilled(firstRow) ==
  LET filled == { j \in DOMAIN firstRow : NonEmpty(firstRow[j]) }
  IN  IF filled = {} THEN -1 ELSE MaxOf(filled) - 1

\* startColumn of appendUploadToActiveSheet, from the loaded used range
StartColumn(grid) ==
  LET values == UsedValues(grid)
  IN  IF values # << >> /\ LastFilled(values[1]) >= 0 THEN LastFilled(values[1]) + 1 ELSE 0

RECURSIVE IndexToColumnName(_)
IndexToColumnName(index) ==
  IF index <= 0 THEN << >>
  ELSE IndexToColumnName((index - 1) \div 26) \o << UpperLetters[((index - 1) % 26) + 1] >>

\* headerRange.values = [headers]; headerRange.format.font.bold = true
BoldRow(headers) ==
  [j \in DOMAIN headers |-> IF headers[j] = EmptyVal THEN FormattedBlank ELSE headers[j]]

\* the rows an upload writes: its headers, then its data rows
UploadBlock(pu) == << BoldRow(pu.headers) >> \o pu.rows

\* getRangeByIndexes(row, column, ...) of the block lies inside the grid
BlockFits(row, column, block) ==
  /\ row + Len(block) <= NumRows
  /\ column + Len(block[1]) <= NumCols

\* range.values = block for the range whose zero-based top left cell is (row, column)
WriteBlock(grid, row, column, block) ==
  [r \in Rows |-> [c \in Cols |->
     IF r - row \in DOMAIN block /\ c - column \in DOMAIN block[1]
     THEN block[r - row][c - column]
     ELSE grid[r][c]]]

\* the file input's onChange: a file was chosen, the upload request is sent
HandleFileChosen ==
  /\ events < UploadEvents
  /\ events' = events + 1
  /\ lastMessage' = "uploading"
  /\ tasks' = Spawn(UploadTask("upload", "fetch", << >>))
  /\ UNCHANGED << sheets, pendingPlacement, pendingUpload >>

\* the upload and the request for its content were answered: the awaits between them
\* read and write no state of the component
UploadAnswered(t) ==
  /\ t.kind = "upload" /\ t.pc = "fetch"
  /\ \E u \in Uploads : pendingUpload' = << u >>
  /\ lastMessage' = "uploaded"
  /\ tasks' = Finish(t)
  /\ UNCHANGED << sheets, pendingPlacement, events >>

\* !data || !data.ok
UploadRejected(t) ==
  /\ t.kind = "upload" /\ t.pc = "fetch"
  /\ lastMessage' = "upload_failed"
  /\ tasks' = Finish(t)
  /\ UNCHANGED << sheets, pendingPlacement, events, pendingUpload >>

\* the Merge horizontally button: appendUploadToActiveSheet up to its first sync
HandleMergeHorizontally ==
  /\ events < UploadEvents
  /\ events' = events + 1
  /\ HasUpload
  /\ lastMessage' = "none"
  /\ tasks' = Spawn(UploadTask("merge", "merge_read", pendingUpload))
  /\ UNCHANGED << sheets, pendingPlacement, pendingUpload >>

\* the used range is loaded: the start column is computed and the writes are queued
MergeRead(t) ==
  /\ t.kind = "merge" /\ t.pc = "merge_read"
  /\ tasks' = Step(t, [t EXCEPT !.pc = "merge_flush",
                                !.addr = IndexToColumnName(StartColumn(ActiveCells) + 1) \o << "1" >>])
  /\ lastMessage' = "none"
  /\ UNCHANGED << sheets, pendingPlacement, events, pendingUpload >>

\* the second sync: the headers go to row 0 and the data rows below them
MergeFlush(t) ==
  /\ t.kind = "merge" /\ t.pc = "merge_flush"
  /\ BlockFits(0, AddrCol(t.addr) - 1, UploadBlock(t.pu[1]))
  /\ sheets' = [sheets EXCEPT ![1].cells =
                  WriteBlock(@, 0, AddrCol(t.addr) - 1, UploadBlock(t.pu[1]))]
  /\ tasks' = Step(t, [t EXCEPT !.pc = "merge_done"])
  /\ lastMessage' = "none"
  /\ UNCHANGED << pendingPlacement, events, pendingUpload >>

\* appendRes.ok: the message, and the finally block
MergeDone(t) ==
  /\ t.kind = "merge" /\ t.pc = "merge_done"
  /\ lastMessage' = "merged_horizontally"
  /\ pendingUpload' = << >>
  /\ tasks' = Finish(t)
  /\ UNCHANGED << sheets, pendingPlacement, events >>

\* a variant of the Cancel button that clears both slots
HandleCancelBoth ==
  /\ events < UploadEvents
  /\ events' = events + 1
  /\ HasUpload
  /\ lastMessage' = "upload_skipped"
  /\ pendingUpload' = << >>
  /\ pendingPlacement' = << >>
  /\ UNCHANGED << sheets, tasks >>

\* the Cancel button
HandleCancelUpload ==
  /\ events < UploadEvents
  /\ events' = events + 1
  /\ HasUpload
  /\ lastMessage' = "upload_skipped"
  /\ pendingUpload' = << >>
  /\ UNCHANGED << sheets, pendingPlacement, tasks >>

\* the Append below the data button, up to the first sync of its own Excel.run
HandleAppendBelow ==
  /\ events < UploadEvents
  /\ events' = events + 1
  /\ HasUpload
  /\ lastMessage' = "none"
  /\ tasks' = Spawn(UploadTask("append", "ab_check", pendingUpload))
  /\ UNCHANGED << sheets, pendingPlacement, pendingUpload >>

\* isEmpty: the used range is the null object or has no row
AppendCheck(t) ==
  /\ t.kind = "append" /\ t.pc = "ab_check"
  /\ tasks' = Step(t, [t EXCEPT !.pc = IF UsedRowCount(ActiveCells) = 0
                                       THEN "empty_read" ELSE "vert_read"])
  /\ lastMessage' = "none"
  /\ UNCHANGED << sheets, pendingPlacement, events, pendingUpload >>

\* writeUploadToEmptySheet: the used range is loaded; a sheet that is not empty makes
\* it return ok: false, otherwise the writes are queued
EmptyRead(t) ==
  /\ t.kind = "append" /\ t.pc = "empty_read"
  /\ tasks' = Step(t, [t EXCEPT !.pc = IF UsedRowCount(ActiveCells) > 0
                                       THEN "empty_skipped" ELSE "empty_flush"])
  /\ lastMessage' = "none"
  /\ UNCHANGED << sheets, pendingPlacement, events, pendingUpload >>

\* writeUploadToEmptySheet: the headers go to A1 and the data rows to A2, second sync
EmptyFlush(t) ==
  /\ t.kind = "append" /\ t.pc = "empty_flush"
  /\ BlockFits(0, 0, UploadBlock(t.pu[1]))
  /\ sheets' = [sheets EXCEPT ![1].cells = WriteBlock(@, 0, 0, UploadBlock(t.pu[1]))]
  /\ tasks' = Step(t, [t EXCEPT !.pc = "empty_done"])
  /\ lastMessage' = "none"
  /\ UNCHANGED << pendingPlacement, events, pendingUpload >>

\* writeUploadToEmptySheet returned: its result is not looked at; then the finally block
AppendEmptyDone(t) ==
  /\ t.kind = "append" /\ t.pc \in {"empty_done", "empty_skipped"}
  /\ lastMessage' = "written_to_empty_sheet"
  /\ pendingUpload' = << >>
  /\ tasks' = Finish(t)
  /\ UNCHANGED << sheets, pendingPlacement, events >>

\* hasHeader of appendUploadToActiveSheetVertical, from the loaded used range
VerticalHasHeader(values) ==
  values # << >> /\ \E j \in DOMAIN values[1] : NonEmpty(values[1][j])

\* startRow of appendUploadToActiveSheetVertical
VerticalStartRow(values) ==
  IF VerticalHasHeader(values) THEN Len(values) ELSE 1

\* appendUploadToActiveSheetVertical: the used range is loaded, the writes are queued
VerticalRead(t) ==
  /\ t.kind = "append" /\ t.pc = "vert_read"
  /\ LET values == UsedValues(ActiveCells)
     IN  tasks' = Step(t, [t EXCEPT !.hasHeader = VerticalHasHeader(values),
                                    !.addr = << "A" >> \o NatToText(VerticalStartRow(values) + 1),
                                    !.pc = "vert_flush"])
  /\ lastMessage' = "none"
  /\ UNCHANGED << sheets, pendingPlacement, events, pendingUpload >>

\* the cells the queued writes of appendUploadToActiveSheetVertical set: the headers in
\* row 0 when no header was found, the data rows from startRow
VerticalWritten(grid, t) ==
  LET pu == t.pu[1]
      withHeader == IF t.hasHeader THEN grid ELSE WriteBlock(grid, 0, 0, << BoldRow(pu.headers) >>)
  IN  IF pu.rows = << >> THEN withHeader
      ELSE WriteBlock(withHeader, AddrRow(t.addr) - 1, 0, pu.rows)

\* the second sync of appendUploadToActiveSheetVertical.  Without data rows the data
\* range has zero rows: the host either rejects it, after the writes queued before it,
\* or takes it as no cell
VerticalFlush(t) ==
  /\ t.kind = "append" /\ t.pc = "vert_flush"
  /\ t.pu[1].rows # << >> => BlockFits(AddrRow(t.addr) - 1, 0, t.pu[1].rows)
  /\ sheets' = [sheets EXCEPT ![1].cells = VerticalWritten(@, t)]
  /\ \E next \in (IF t.pu[1].rows = << >> THEN {"ab_catch", "vert_done"} ELSE {"vert_done"}) :
       tasks' = Step(t, [t EXCEPT !.pc = next])
  /\ lastMessage' = "none"
  /\ UNCHANGED << pendingPlacement, events, pendingUpload >>

\* appendRes.ok: the message, and the finally block
AppendVerticalDone(t) ==
  /\ t.kind = "append" /\ t.pc = "vert_done"
  /\ lastMessage' = "data_appended"
  /\ pendingUpload' = << >>
  /\ tasks' = Finish(t)
  /\ UNCHANGED << sheets, pendingPlacement, events >>

\* the catch block of Append below, and the finally block
AppendFailed(t) ==
  /\ t.kind = "append" /\ t.pc = "ab_catch"
  /\ lastMessage' = "append_failed"
  /\ pendingUpload' = << >>
  /\ tasks' = Finish(t)
  /\ UNCHANGED << sheets, pendingPlacement, events >>

\* replace(/\.[^/.]+$/, ""): the last dot and what follows it, when that is at least
\* one character and holds no slash
StripExtension(s) ==
  LET dots == { i \in DOMAIN s : s[i] = "." }
  IN  IF dots = {} THEN s
      ELSE LET d == MaxOf(dots)
           IN  IF d < Len(s) /\ \A i \in (d + 1)..Len(s) : s[i] # "/"
               THEN SubSeq(s, 1, d - 1) ELSE s

KeptInName(c) == IsWordChar(c) \/ c \in {"-", " "}

\* replace(/[^\w\- ]/g, "")
KeepNameChars(s) == SelectSeq(s, KeptInName)

UploadedWord == << "U","p","l","o","a","d","e","d" >>

\* newName of the Create new sheet button
UploadSheetName(fileName, stamp) ==
  KeepNameChars(StripExtension(IF fileName = << >> THEN UploadedWord ELSE fileName))
    \o << "_" >> \o NatToText(stamp)

\* worksheets.add(name) is accepted by the host: the name is not blank, has at most
\* 31 characters and is not the name of a sheet of the workbook
SheetNameAccepted(name) ==
  /\ name # << >>
  /\ Len(name) <= 31
  /\ ~NameInUse(name)

\* the Create new sheet button, up to the sync of createSheetFromUpload
HandleCreateSheet ==
  /\ events < UploadEvents
  /\ events' = events + 1
  /\ HasUpload
  /\ lastMessage' = "none"
  /\ \E stamp \in Stamps :
       tasks' = Spawn([UploadTask("create", "create_flush", pendingUpload)
                         EXCEPT !.name = UploadSheetName(pendingUpload[1].fileName, stamp)])
  /\ UNCHANGED << sheets, pendingPlacement, pendingUpload >>

\* createSheetFromUpload: the sheet is added with the headers in A1 and the rows in A2
CreateSheetFlush(t) ==
  /\ t.kind = "create" /\ t.pc = "create_flush"
  /\ SheetNameAccepted(t.name)
  /\ Len(sheets) < MaxSheets
  /\ BlockFits(0, 0, UploadBlock(t.pu[1]))
  /\ sheets' = Append(sheets, Worksheet(t.name, WriteBlock(EmptyGrid, 0, 0, UploadBlock(t.pu[1]))))
  /\ tasks' = Step(t, [t EXCEPT !.pc = "create_done"])
  /\ lastMessage' = "none"
  /\ UNCHANGED << pendingPlacement, events, pendingUpload >>

\* createSheetFromUpload: the sync throws; the onClick handler has no try block, so
\* the rejection ends it
CreateSheetRejected(t) ==
  /\ t.kind = "create" /\ t.pc = "create_flush"
  /\ ~SheetNameAccepted(t.name)
  /\ tasks' = Finish(t)
  /\ lastMessage' = "none"
  /\ UNCHANGED << sheets, pendingPlacement, events, pendingUpload >>

\* createSheetFromUpload returned: the message, setPendingUpload(null)
CreateSheetDone(t) ==
  /\ t.kind = "create" /\ t.pc = "create_done"
  /\ lastMessage' = "sheet_created"
  /\ pendingUpload' = << >>
  /\ tasks' = Finish(t)
  /\ UNCHANGED << sheets, pendingPlacement, events >>

InitUpload ==
  /\ sheets \in UploadWorkbooks
  /\ pendingPlacement = << >>
  /\ lastMessage = "none"
  /\ tasks = EmptyBag
  /\ events = 0
  /\ pendingUpload = << >>

NextUpload ==
  \/ HandleFileChosen
  \/ HandleMergeHorizontally
  \/ HandleCancelUpload
  \/ \E t \in Running : UploadAnswered(t)
  \/ \E t \in Running : UploadRejected(t)
  \/ \E t \in Running : MergeRead(t)
  \/ \E t \in Running : MergeFlush(t)
  \/ \E t \in Running : MergeDone(t)
  \/ HandleAppendBelow
  \/ \E t \in Running : AppendCheck(t)
  \/ \E t \in Running : EmptyRead(t)
  \/ \E t \in Running : EmptyFlush(t)
  \/ \E t \in Running : AppendEmptyDone(t)
  \/ \E t \in Running : VerticalRead(t)
  \/ \E t \in Running : VerticalFlush(t)
  \/ \E t \in Running : AppendVerticalDone(t)
  \/ \E t \in Running : AppendFailed(t)
  \/ HandleCreateSheet
  \/ \E t \in Running : CreateSheetFlush(t)
  \/ \E t \in Running : CreateSheetRejected(t)
  \/ \E t \in Running : CreateSheetDone(t)
  \/ events < UploadEvents /\ \E t \in UploadCommands : SendCommand(t)
  \/ \E t \in Running : CommandAnswered(t, UploadResponses)

SpecUpload == InitUpload /\ [][NextUpload]_vars

(***************************************************************************)
(* Properties                                                              *)
(***************************************************************************)

\* the phrase test of the overwrite protocol on a submitted text, for the bound address
IsOverwritePhrase(t, addr) ==
  LET text == ToLowerCase(Trim(t))
  IN  text \in { OverwriteWord, OverwriteWord \o << " " >> \o ToLowerCase(addr) }

CellB2 == << "B", "2" >>

\* C1: writeResult with overwrite = false, finding its target cell non-empty, throws and
\* leaves the sheet as it is; a writeResult call that found its target non-empty goes
\* on to write only when it was called with overwrite = true.
C1_OccupiedCellNeedsOverwrite ==
  [][\A t \in Running :
       /\ (WriteResultRead(t) /\ NonEmpty(CellAt(sheets[t.sheet].cells, t.addr)) /\ ~t.overwrite)
            => /\ sheets' = sheets
               /\ \E u \in BagToSet(tasks') : u.pc = "catch" /\ tasks' = Step(t, u)
       /\ (WriteResultFlush(t) /\ NonEmpty(t.cur)) => t.overwrite
    ]_vars

\* a writeResult call without the flag has thrown on a non-empty cell, which is unchanged
C1_Witness ==
  \E t \in Running :
    /\ t.pc = "catch" /\ t.kind \in {"place", "cell"} /\ ~t.overwrite
    /\ NonEmpty(t.cur)
    /\ CellAt(sheets[t.sheet].cells, t.addr) = t.cur

\* C2: every writeResult call with overwrite = true belongs to the confirmation branch of
\* handleSend: the input of that invocation, trimmed and lower-cased, is 'overwrite' or
\* 'overwrite <addr>' for the address stored in awaitingOverwrite, and the call targets
\* that address.
C2_OverwriteOnlyAfterPhrase ==
  \A t \in Running :
    t.overwrite =>
      /\ t.kind = "confirm"
      /\ t.pp # << >> /\ t.pp[1].awaitingOverwrite # << >>
      /\ t.addr = t.pp[1].awaitingOverwrite[1].addr
      /\ IsOverwritePhrase(t.text, t.pp[1].awaitingOverwrite[1].addr)

\* a write with overwrite = true has been flushed
C2_Witness == \E t \in Running : t.overwrite /\ t.pc = "wr_done"

\* C3: while a result is pending that awaits neither a cell nor an overwrite
\* confirmation, every submitted text is answered with the 'finish placement' message:
\* no request is sent, no handler touches the sheet, the pending result is unchanged.
C3_PlainPendingBlocksText ==
  [][\A t \in Inputs :
       (PendingPlain /\ HandleSend(t))
         => /\ lastMessage' = "finish_placement"
            /\ UNCHANGED << sheets, pendingPlacement, tasks >>
    ]_vars

\* a text was submitted while a plain result was pending
C3_Witness == PendingPlain /\ lastMessage = "finish_placement"

\* C4: a backend response that arrives while a result is pending does not replace it.
C4_ResponseKeepsPending ==
  [][\A t \in Running :
       (HasPending /\ CommandOk(t)) => pendingPlacement' = pendingPlacement
    ]_vars

\* C5: the cell branch of handleSend, having read an occupied cell at a valid address,
\* finishes with the result still pending, awaitingCell false and awaitingOverwrite
\* bound to the typed address.
C5_OccupiedCellAwaitsOverwrite ==
  [][\A t \in Running :
       (t.pc = "occupied_ret" /\ CellReturn(t))
         => /\ HasPending'
            /\ ~pendingPlacement'[1].awaitingCell
            /\ pendingPlacement'[1].awaitingOverwrite # << >>
            /\ pendingPlacement'[1].awaitingOverwrite[1].addr = t.addr
    ]_vars

\* C6: Place on a result without chart whose suggested column resolves to an occupied
\* cell finishes with the result still pending and awaitingOverwrite bound to that cell.
C6_OccupiedSuggestionAwaitsOverwrite ==
  [][\A t \in Running :
       PlaceOccupied(t)
         => /\ lastMessage' = "overwrite_prompt"
            /\ sheets' = sheets
            /\ HasPending'
            /\ pendingPlacement'[1].awaitingOverwrite # << >>
            /\ pendingPlacement'[1].awaitingOverwrite[1].addr = t.addr
    ]_vars

\* C7: with awaitingOverwrite bound to X on a result without chart, 'overwrite' or
\* 'overwrite X' in any letter case starts writeResult at X with overwrite = true; that
\* call does not throw on the occupied cell, its write leaves the result value in X, and
\* the handler then clears the pending result.
C7_PhraseCommitsWrite ==
  [][/\ \A t \in Inputs :
          (/\ AwaitingOverwrite /\ ~Pending.chart
           /\ IsOverwritePhrase(t, Pending.awaitingOverwrite[1].addr)
           /\ HandleSend(t))
            => \E u \in BagToSet(tasks') :
                 /\ tasks' = Spawn(u)
                 /\ u.kind = "confirm" /\ u.pc = "wr_read" /\ u.overwrite
                 /\ u.addr = Pending.awaitingOverwrite[1].addr
                 /\ u.pp = pendingPlacement
     /\ \A t \in Running :
          /\ (t.kind = "confirm" /\ WriteResultRead(t))
               => \E u \in BagToSet(tasks') : u.pc = "wr_flush" /\ tasks' = Step(t, u)
          /\ (t.kind = "confirm" /\ WriteResultFlush(t))
               => /\ sheets'[1].cells[AddrRow(t.addr)][AddrCol(t.addr)] = ResultValue(t.pp[1].note)
                  /\ \A r \in Rows, c \in Cols :
                       << r, c >> # << AddrRow(t.addr), AddrCol(t.addr) >>
                         => sheets'[1].cells[r][c] = sheets[1].cells[r][c]
          /\ (t.kind = "confirm" /\ ConfirmDone(t)) => pendingPlacement' = << >>
    ]_vars

\* the occupied cell B2 holds the result after a confirmed overwrite, nothing is pending
C7_Witness ==
  /\ lastMessage = "overwrote"
  /\ ~HasPending
  /\ CellAt(ActiveCells, CellB2) = ResultValue(NoteSum)
  /\ CellAt(GridOffset, CellB2) = HeaderAmt

\* C8: with awaitingOverwrite bound to X, every text other than 'overwrite' and
\* 'overwrite X' (trimmed, any letter case) leaves the pending result and its binding
\* as they are, starts no handler, touches no sheet, and emits the prompt again.
C8_OtherTextKeepsBinding ==
  [][\A t \in Inputs :
       (/\ AwaitingOverwrite
        /\ ~IsOverwritePhrase(t, Pending.awaitingOverwrite[1].addr)
        /\ HandleSend(t))
         => /\ lastMessage' = "confirm_overwrite_prompt"
            /\ UNCHANGED << sheets, pendingPlacement, tasks >>
    ]_vars

\* a text other than the phrase was submitted and the binding is still there
C8_Witness == AwaitingOverwrite /\ lastMessage = "confirm_overwrite_prompt"

\* the letters-then-digits test on a submitted text, trimmed and upper-cased
IsAddressInput(t) ==
  LET a == ToUpperCase(Trim(t))
  IN  \E k \in 1..(Len(a) - 1) :
        /\ \A i \in 1..k : IsUpper(a[i])
        /\ \A i \in (k + 1)..Len(a) : IsDigit(a[i])

\* C9: while awaitingCell is set, a text that is no address is rejected with a prompt:
\* awaitingCell stays true, no handler is started and no sheet is touched.
C9_InvalidAddressRejected ==
  [][\A t \in Inputs :
       (AwaitingCell /\ ~IsAddressInput(t) /\ HandleSend(t))
         => /\ lastMessage' \in {"invalid_cell", "confirm_overwrite_prompt"}
            /\ AwaitingCell'
            /\ UNCHANGED << sheets, tasks >>
    ]_vars

\* C10: while awaitingCell is set on a result without chart, a valid address starts the
\* placement at that address.
C10_ValidAddressStartsPlacement ==
  [][\A t \in Inputs :
       (AwaitingCell /\ ~Pending.chart /\ IsAddressInput(t) /\ HandleSend(t))
         => \E u \in BagToSet(tasks') :
              /\ tasks' = Spawn(u)
              /\ u.kind = "cell" /\ u.addr = ToUpperCase(Trim(t))
    ]_vars

\* C11: a placement handler whose spreadsheet call threw emits a failure message and
\* finishes with nothing pending.
C11_FailureClearsPending ==
  [][\A t \in Running :
       (PlaceFailed(t) \/ CellFailed(t) \/ ResultsFailed(t))
         => /\ lastMessage' \in {"failed_to_place", "failed_results_sheet"}
            /\ pendingPlacement' = << >>
    ]_vars

\* the placement handlers in flight, with their multiplicity
PlacementRounds ==
  LET placing == { t \in Running : t.kind \in {"place", "cell", "confirm", "results"} }
  IN  IF placing = {} THEN 0 ELSE BagCardinality([t \in placing |-> tasks[t]])

\* C12: at no point are two placement handlers in flight at the same time.
C12_OneWriteRound == PlacementRounds <= 1

\* C13: a write issued with overwrite = false never lands on a cell that is non-empty
\* at the moment the write is flushed, whatever ran since its occupancy read.
C13_NoStaleWrite ==
  [][\A t \in Running :
       (WriteResultFlush(t) /\ ~t.overwrite)
         => ~NonEmpty(CellAt(sheets[t.sheet].cells, t.addr))
    ]_vars

\* C14: for a result without chart, the write of either results-sheet action (append
\* to the latest results sheet, create new) stores the cleaned note text as a text.
C14_ResultsSheetStoresText ==
  [][\A t \in Running :
       (t.kind = "results" /\ (WriteResultFlush(t) \/ ResultsAppendFlush(t)))
         => CellAt(sheets'[t.sheet].cells, t.addr) = Str(CleanText(t.pp[1].note))
    ]_vars

\* the value each note of the cases is to be stored as: the number of its first signed
\* decimal numeral, or the note itself when it holds none
ExpectedValue(note) ==
  CASE note = NoteUnits -> Num(<< "4","2",".","5" >>)
    [] note = NoteSum -> Num(<< "4","2",".","5" >>)
    [] note = NoteNegative -> Num(<< "-","3" >>)
    [] note = NoteVersion -> Num(<< "1",".","2" >>)
    [] note = NotePlusFraction -> Num(<< "0",".","5" >>)
    [] note = NoteLeadingZeros -> Num(<< "7" >>)
    [] note = NoteWords -> Str(NoteWords)
    [] note = DefaultNote -> Str(DefaultNote)

\* C15: every write of Place below data, of the A1 fallback and of the specific-cell
\* input stores the number parsed from the first signed decimal numeral of the note,
\* and the note itself when it contains none.
C15_StoredValue ==
  [][\A t \in Running :
       (t.kind \in {"place", "cell", "confirm"} /\ WriteResultFlush(t))
         => CellAt(sheets'[t.sheet].cells, t.addr) = ExpectedValue(t.pp[1].note)
    ]_vars

\* 'v1.2.3' was placed in a typed cell as the number 1.2
C15_Witness ==
  \E t \in Running :
    /\ t.kind = "cell" /\ t.pc = "wr_done" /\ t.pp[1].note = NoteVersion
    /\ CellAt(ActiveCells, t.addr) = Num(<< "1",".","2" >>)

\* C16: Place on a result without chart and without suggested column writes A1 of the
\* active sheet whatever A1 holds: its writeResult call goes on to the write.
C16_FallbackWritesA1 ==
  [][\A t \in Running :
       (/\ t.kind = "place" /\ ~t.pp[1].chart /\ t.pp[1].suggestedColumn = << >>
        /\ WriteResultRead(t))
         => /\ t.addr = CellA1
            /\ \E u \in BagToSet(tasks') : u.pc = "wr_flush" /\ tasks' = Step(t, u)
    ]_vars

\* the largest sheet number looked for in a name
MaxSuffix == 20

\* the numbers n for which a results sheet named ..._<n> exists
NumericSuffixes(names) ==
  { n \in 0..MaxSuffix :
      \E i \in DOMAIN names :
        /\ StartsWith(names[i], ResultsPrefix)
        /\ \E k \in DOMAIN names[i] :
             names[i][k] = "_" /\ SubSeq(names[i], k + 1, Len(names[i])) = NatToText(n) }

ExpectedMint(names) ==
  ResultsPrefix \o << "_" >> \o NatToText(1 + MaxOf(NumericSuffixes(names) \cup {0}))

\* C17: every mint, in writeResult and in the chart path of the results-sheet handler,
\* chooses AI_Results_<n> with n = 1 + the largest number among the results sheets of
\* the sheet list as it is at that moment, and n = 1 when there is none.
C17_MintedName ==
  [][\A t \in Running :
       (WriteResultNames(t) \/ ResultsMintNames(t))
         => \E u \in BagToSet(tasks') :
              tasks' = Step(t, u) /\ u.name = ExpectedMint(SheetNames)
    ]_vars

\* with AI_Results_1, AI_Results_3 and Other in the workbook, AI_Results_4 was minted
C17_Witness ==
  /\ SheetNames = << SheetOne, SheetResults1, SheetResults3, SheetOther >>
  /\ \E t \in Running : t.pc \in {"wr_add", "mint_add"} /\ t.name = ResultsSheetName(4)

\* the columns of the used range whose header contains the hint, letter case aside
HintColumns(values, hint) ==
  { j \in DOMAIN values[1] :
      NonEmpty(values[1][j]) /\ Includes(ToLowerCase(values[1][j].v), ToLowerCase(hint)) }

\* the row of the last non-blank cell of the first such column, the header row being row 1
LastFilledRow(values, hint) ==
  LET c == MinOf(HintColumns(values, hint))
  IN  MaxOf({ i \in DOMAIN values : NonEmpty(values[i][c]) })

\* C18: when a header matches the hint, the address findPlacementCell returns has the
\* row of the last non-blank cell of that column (header row = row 1) plus 2.
C18_DestinationRow ==
  [][\A t \in Running :
       FindUsedRange(t)
         => \A u \in BagToSet(tasks') :
              (tasks' = Step(t, u) /\ u.pc = "find2")
                => AddrRow(u.addr)
                     = LastFilledRow(UsedValues(ActiveCells), t.pp[1].suggestedColumn) + 2
    ]_vars

\* no header of the used range of the active sheet contains the hint
NoHeaderFor(hint) ==
  \/ UsedRows(ActiveCells) = {}
  \/ HintColumns(UsedValues(ActiveCells), hint) = {}

\* C19: findPlacementCell reports found = false when the used region is empty and when
\* no header contains the hint; Place then emits the failure message, writes nothing
\* and leaves nothing pending.
C19_NotFoundEndsPlacement ==
  [][\A t \in Running :
       /\ (FindUsedRange(t) /\ NoHeaderFor(t.pp[1].suggestedColumn))
            => \E u \in BagToSet(tasks') : tasks' = Step(t, u) /\ u.pc = "not_found"
       /\ PlaceNotFound(t)
            => /\ lastMessage' = "column_not_found"
               /\ sheets' = sheets
               /\ pendingPlacement' = << >>
               /\ tasks' = Finish(t)
    ]_vars

\* Place ended on an empty sheet with the failure message and nothing pending
C19_Witness ==
  /\ lastMessage = "column_not_found"
  /\ ~HasPending
  /\ ActiveCells = EmptyGrid
  /\ tasks = EmptyBag

\* the zero-based column one to the right of the rightmost non-blank cell of the top
\* row of the used region, 0 for a sheet without a used region
RightOfTopRow(grid) ==
  IF UsedRows(grid) = {} THEN 0
  ELSE MaxOf({ c \in Cols : NonEmpty(ValueOf(grid[MinOf(UsedRows(grid))][c])) } \cup {0})

\* C20: the horizontal append starts one column to the right of the rightmost non-empty
\* cell of row 0 of the used region (column 0 when there is none), and writes the
\* headers in row 0 and the data rows from row 1 in the same columns.
C20_HorizontalDestination ==
  [][\A t \in Running :
       /\ MergeRead(t)
            => \E u \in BagToSet(tasks') :
                 /\ tasks' = Step(t, u)
                 /\ AddrCol(u.addr) - 1 = RightOfTopRow(ActiveCells)
                 /\ AddrRow(u.addr) = 1
       /\ MergeFlush(t)
            => LET pu == t.pu[1]
                   column == AddrCol(t.addr)
               IN  /\ \A j \in DOMAIN pu.headers :
                        ValueOf(sheets'[1].cells[1][column + j - 1]) = pu.headers[j]
                   /\ \A i \in DOMAIN pu.rows : \A j \in DOMAIN pu.headers :
                        sheets'[1].cells[1 + i][column + j - 1] = pu.rows[i][j]
    ]_vars

\* C23: whatever the pending result is waiting for (nothing, a cell address, an
\* overwrite confirmation), Don't place leaves no pending result, starts no handler
\* and leaves every sheet as it is.
C23_DontPlaceDiscards ==
  [][(HasPending /\ HandleDontPlace)
       => /\ pendingPlacement' = << >>
          /\ sheets' = sheets
          /\ tasks' = tasks
          /\ lastMessage' = "placement_skipped"
    ]_vars

\* Don't place was clicked with no handler in flight: nothing is pending, no sheet changed
C23_Witness ==
  /\ lastMessage = "placement_skipped"
  /\ ~HasPending
  /\ tasks = EmptyBag
  /\ \E g \in InitialGrids : ActiveCells = g

PlacementKinds == {"place", "cell", "confirm", "results"}

\* C30: Don't place leaves the placement rounds in flight as they are; a round whose
\* pending result was discarded meanwhile still writes its cell when its write is
\* flushed, and ends with no pending result; no round starts without a pending result.
C30_DontPlaceCannotAbort ==
  [][/\ HandleDontPlace => tasks' = tasks
     /\ \A t \in Running :
          /\ (t.kind \in PlacementKinds /\ ~HasPending /\ WriteResultFlush(t))
               => /\ CellAt(sheets'[t.sheet].cells, t.addr) = ResultValue(t.pp[1].note)
                  /\ \E u \in BagToSet(tasks') : tasks' = Step(t, u) /\ u.pc = "wr_done"
          /\ (t.kind \in PlacementKinds /\ ~HasPending /\ tasks' = Finish(t))
               => pendingPlacement' = << >>
     /\ PlacementRounds' > PlacementRounds => HasPending
    ]_vars

\* Don't place was just clicked while a placement round had its write queued
C30_Witness ==
  /\ lastMessage = "placement_skipped"
  /\ ~HasPending
  /\ \E t \in Running : t.kind \in PlacementKinds /\ t.pc = "wr_flush"

\* the value of the cell in row r, column c (one-based), blank beyond the grid
ValueAt(grid, r, c) == IF r \in Rows /\ c \in Cols THEN ValueOf(grid[r][c]) ELSE EmptyVal

\* C22: when row 0 of the used region has a non-empty cell, the vertical append starts
\* at the row whose index is the row count of the used region, writes the upload's
\* headers in that row and the data rows below them.
C22_VerticalDestination ==
  [][\A t \in Running :
       /\ (VerticalRead(t) /\ UsedRows(ActiveCells) # {}
             /\ \E c \in Cols : NonEmpty(ValueAt(ActiveCells, MinOf(UsedRows(ActiveCells)), c)))
            => \E u \in BagToSet(tasks') :
                 /\ tasks' = Step(t, u)
                 /\ AddrRow(u.addr) - 1 = UsedRowCount(ActiveCells)
       /\ (VerticalFlush(t) /\ t.hasHeader)
            => LET pu == t.pu[1]
                   top == AddrRow(t.addr)
               IN  /\ \A j \in DOMAIN pu.headers :
                        ValueAt(sheets'[1].cells, top, j) = pu.headers[j]
                   /\ \A i \in DOMAIN pu.rows : \A j \in DOMAIN pu.headers :
                        ValueAt(sheets'[1].cells, top + i, j) = pu.rows[i][j]
    ]_vars

\* the active sheet as the empty-sheet write leaves it for an upload
EmptySheetWritten(pu) == WriteBlock(EmptyGrid, 0, 0, UploadBlock(pu))

\* C21: on an active sheet that holds exactly what the empty-sheet write stored for an
\* upload, the vertical append of the same upload starts below the rows that write
\* covered and replaces no value it stored.
C21_SecondWriteBelowFirst ==
  [][\A t \in Running :
       (VerticalFlush(t) /\ ActiveCells = EmptySheetWritten(t.pu[1]))
         => /\ t.hasHeader
            /\ AddrRow(t.addr) > Len(UploadBlock(t.pu[1]))
            /\ \A r \in Rows : \A c \in Cols :
                 NonEmpty(ValueOf(ActiveCells[r][c]))
                   => sheets'[1].cells[r][c] = ActiveCells[r][c]
    ]_vars

UploadActionKinds == {"create", "append", "merge"}

\* C24: every upload action ends with no pending upload, whether its writes went
\* through or not, and Cancel clears the pending upload without touching a sheet.
C24_UploadActionClears ==
  [][/\ \A t \in Running :
          (t.kind \in UploadActionKinds /\ tasks' = Finish(t)) => pendingUpload' = << >>
     /\ HandleCancelUpload
          => pendingUpload' = << >> /\ sheets' = sheets /\ tasks' = tasks
    ]_vars

UploadFailureMessages == {"append_failed", "merge_failed", "create_failed"}

\* C25: an upload action whose spreadsheet operation failed ends by showing a failure
\* message.
C25_UploadFailureReported ==
  [][\A t \in Running :
       (AppendFailed(t) \/ CreateSheetRejected(t)) => lastMessage' \in UploadFailureMessages
    ]_vars

\* C26: a text submitted in the chat box is sent to the backend as a new command only
\* when neither a result nor an upload is pending.
C26_NoCommandWhileUploadPending ==
  [][\A t \in UploadCommands : SendCommand(t) => ~HasPending /\ ~HasUpload]_vars

\* C27: the append of a result without chart goes to column A, row (used row count of
\* the results sheet) + 1, and the backup component computes the same cell.
C27_AppendRowAgrees ==
  [][\A t \in Running :
       ResultsAppendRead(t)
         => \E u \in BagToSet(tasks') :
              /\ tasks' = Step(t, u)
              /\ AddrCol(u.addr) = 1
              /\ AddrRow(u.addr) = UsedRowCount(sheets[t.sheet].cells) + 1
              /\ BackupPutCell(BackupUsedRowCount(sheets[t.sheet].cells)) = u.addr
    ]_vars

\* C28: the cell a results-sheet append writes is blank before the write.
C28_AppendNeverReplaces ==
  [][\A t \in Running :
       ResultsAppendFlush(t) => ~NonEmpty(CellAt(sheets[t.sheet].cells, t.addr))
    ]_vars

(***************************************************************************)
(* insertChartImageOnSheet step by step, with a host that may reject any   *)
(* context.sync().  The program is followed for ChartEvents user actions   *)
(* from each workbook of ChartWorkbooks; every answer carries a chart.     *)
(***************************************************************************)
ChartEvents == 3

FallbackLeft == 20

ChartResponses == { [note |-> NoteChart, chart |-> TRUE] }

ChartWorkbooks ==
  { << Worksheet(SheetOne, EmptyGrid) >>,
    << Worksheet(SheetOne, GridTable) >>,
    << Worksheet(SheetOne, GridTable), Worksheet(SheetResults1, GridTable) >> }

\* the top without the two rows of margin
FallbackTopNoMargin(rowCount) == MaxOf({20, rowCount * 18})

\* const top = Math.max(20, (rowCount + 2) * 18)
FallbackTop(rowCount) == MaxOf({20, (rowCount + 2) * 18})

\* const rowCount = used.rowCount || 1
FallbackRowCount(grid) == IF UsedRowCount(grid) = 0 THEN 1 ELSE UsedRowCount(grid)

\* the handler is about to load the active cell: with no sheet name there is no
\* await before it
ChartStart(t) ==
  \/ t.pc = "chart" /\ t.kind # "results"
  \/ t.pc = "chart_cell"

\* a sheet name was passed: getItemOrNullObject(sheetName); await context.sync(),
\* before the try block
ChartResolve(t) ==
  /\ t.pc = "chart" /\ t.kind = "results"
  /\ \E ok \in BOOLEAN :
       tasks' = Step(t, [t EXCEPT !.pc = IF ok THEN "chart_cell" ELSE "catch"])
  /\ lastMessage' = "none"
  /\ UNCHANGED << pendingUpload, sheets, pendingPlacement, events >>

\* activeCell.load(...); await context.sync()
ChartActiveCell(t) ==
  /\ ChartStart(t)
  /\ \E ok \in BOOLEAN :
       tasks' = Step(t, [t EXCEPT !.pc = IF ok THEN "chart_add" ELSE "chart_fallback"])
  /\ lastMessage' = "none"
  /\ UNCHANGED << pendingUpload, sheets, pendingPlacement, events >>

\* shapes.addImage(base64) with its size; await context.sync()
ChartAddImage(t) ==
  /\ t.pc = "chart_add"
  /\ \E ok \in BOOLEAN :
       /\ sheets' = IF ok THEN [sheets EXCEPT ![t.sheet].images = @ + 1] ELSE sheets
       /\ tasks' = Step(t, [t EXCEPT !.added = IF ok THEN @ + 1 ELSE @,
                                     !.pc = IF ok THEN "chart_load" ELSE "chart_fallback"])
  /\ lastMessage' = "none"
  /\ UNCHANGED << pendingUpload, pendingPlacement, events >>

\* image.load(["width", "height"]); await context.sync() in a try of its own:
\* the handler goes on whether the sync succeeds or throws
ChartLoad(t) ==
  /\ t.pc = "chart_load"
  /\ tasks' = Step(t, [t EXCEPT !.pc = "chart_position"])
  /\ lastMessage' = "none"
  /\ UNCHANGED << pendingUpload, sheets, pendingPlacement, events >>

\* left, top, placement and name are set; await context.sync(); return
ChartPosition(t) ==
  /\ t.pc = "chart_position"
  /\ \E ok \in BOOLEAN :
       tasks' = Step(t, [t EXCEPT !.pc = IF ok THEN "chart_done" ELSE "chart_fallback"])
  /\ lastMessage' = "none"
  /\ UNCHANGED << pendingUpload, sheets, pendingPlacement, events >>

\* the catch of the active-cell try: used.load("rowCount"); await context.sync()
ChartFallbackRead(t) ==
  /\ t.pc = "chart_fallback"
  /\ \E ok \in BOOLEAN :
       tasks' = Step(t,
         IF ok
         THEN [t EXCEPT !.at = [left |-> FallbackLeft,
                                top |-> FallbackTop(FallbackRowCount(sheets[t.sheet].cells))],
                        !.pc = "chart_fallback_add"]
         ELSE [t EXCEPT !.pc = "catch"])
  /\ lastMessage' = "none"
  /\ UNCHANGED << pendingUpload, sheets, pendingPlacement, events >>

\* the fallback's addImage with left and top; await context.sync(); return, or
\* throw fallbackErr
ChartFallbackAdd(t) ==
  /\ t.pc = "chart_fallback_add"
  /\ \E ok \in BOOLEAN :
       /\ sheets' = IF ok THEN [sheets EXCEPT ![t.sheet].images = @ + 1] ELSE sheets
       /\ tasks' = Step(t, [t EXCEPT !.added = IF ok THEN @ + 1 ELSE @,
                                     !.pc = IF ok THEN "chart_done" ELSE "catch"])
  /\ lastMessage' = "none"
  /\ UNCHANGED << pendingUpload, pendingPlacement, events >>

InitChart ==
  /\ sheets \in ChartWorkbooks
  /\ pendingPlacement = << >>
  /\ lastMessage = "none"
  /\ tasks = EmptyBag
  /\ events = 0
  /\ pendingUpload = << >>

NextChart ==
  \/ events < ChartEvents /\ \E t \in UploadCommands : SendCommand(t)
  \/ events < ChartEvents /\ HandlePlaceInExcelForChartOrBelow
  \/ events < ChartEvents /\ \E createNew \in BOOLEAN : HandlePlaceOnResultsSheet(createNew)
  \/ \E t \in Running : CommandAnswered(t, ChartResponses)
  \/ \E t \in Running : ChartResolve(t)
  \/ \E t \in Running : ChartActiveCell(t)
  \/ \E t \in Running : ChartAddImage(t)
  \/ \E t \in Running : ChartLoad(t)
  \/ \E t \in Running : ChartPosition(t)
  \/ \E t \in Running : ChartFallbackRead(t)
  \/ \E t \in Running : ChartFallbackAdd(t)
  \/ \E t \in Running : PlaceDone(t)
  \/ \E t \in Running : PlaceFailed(t)
  \/ \E t \in Running : ResultsNames(t)
  \/ \E t \in Running : ResultsMintNames(t)
  \/ \E t \in Running : ResultsMintAdd(t)
  \/ \E t \in Running : ResultsDone(t)
  \/ \E t \in Running : ResultsFailed(t)

SpecChart == InitChart /\ [][NextChart]_vars

\* the steps of the active-cell path whose failure reaches the catch of the try
ActiveCellStep(t) == ChartStart(t) \/ t.pc \in {"chart_add", "chart_position"}

\* where such a step goes when its sync succeeds
ActiveCellNext(t) ==
  IF ChartStart(t) THEN "chart_add"
  ELSE IF t.pc = "chart_add" THEN "chart_load" ELSE "chart_done"

InChartCall(t) ==
  t.pc \in {"chart", "chart_cell", "chart_add", "chart_load", "chart_position",
            "chart_fallback", "chart_fallback_add"}

PlacementFailureMessages == {"failed_to_place", "failed_results_sheet"}

\* C29 as stated: when a step of the active-cell path fails the fallback is
\* attempted with left 20 and top max(20, (usedRowCount + 2) * 18); the call
\* fails to its caller only when the fallback failed; the caller then reports
\* a failure.
C29_FallbackOrFailure ==
  [][ /\ \A t \in Running : \A u \in BagToSet(tasks') :
           (t # u /\ tasks' = Step(t, u)) =>
             /\ (ActiveCellStep(t) /\ u.pc # ActiveCellNext(t)) => u.pc = "chart_fallback"
             /\ (t.pc = "chart_fallback" /\ u.pc = "chart_fallback_add") =>
                  /\ u.at.left = 20
                  /\ u.at.top = MaxOf({20, (UsedRowCount(sheets[t.sheet].cells) + 2) * 18})
             /\ (InChartCall(t) /\ u.pc = "catch") =>
                  t.pc \in {"chart_fallback", "chart_fallback_add"}
      /\ \A t \in Running :
           (t.pc = "catch" /\ tasks' = Finish(t)) => lastMessage' \in PlacementFailureMessages
    ]_vars

\* C29, amended: when the active-cell sync, the image sync or the final sync of
\* the active-cell path fails the fallback is attempted with left 20 and top
\* max(20, (max(usedRowCount, 1) + 2) * 18); the call fails to its caller only
\* when the fallback failed or when the lookup of the named sheet failed; the
\* caller then reports a failure.
C29_FallbackAfterActiveCellFailure ==
  [][ /\ \A t \in Running : \A u \in BagToSet(tasks') :
           (t # u /\ tasks' = Step(t, u)) =>
             /\ (ActiveCellStep(t) /\ u.pc # ActiveCellNext(t)) => u.pc = "chart_fallback"
             /\ (t.pc = "chart_fallback" /\ u.pc = "chart_fallback_add") =>
                  /\ u.at.left = 20
                  /\ u.at.top =
                       MaxOf({20, (MaxOf({UsedRowCount(sheets[t.sheet].cells), 1}) + 2) * 18})
             /\ (InChartCall(t) /\ u.pc = "catch") =>
                  \/ t.pc \in {"chart_fallback", "chart_fallback_add"}
                  \/ t.pc = "chart" /\ t.kind = "results"
      /\ \A t \in Running :
           (t.pc = "catch" /\ tasks' = Finish(t)) => lastMessage' \in PlacementFailureMessages
    ]_vars

\* the active-cell path failed on a sheet with two used rows, the fallback chose
\* top 72 and then failed too: the call is failing to its caller
C29_Witness ==
  \E t \in Running : t.pc = "catch" /\ t.at = [left |-> 20, top |-> 72]

(***************************************************************************)
(* Both slots together: the placement protocol and the upload buttons      *)
(* from a state in which an upload has been answered and is pending.  The  *)
(* program is followed for SlotEvents user actions.                        *)
(***************************************************************************)
SlotEvents == 4

SlotWorkbooks == { << Worksheet(SheetOne, g) >> : g \in { GridOffset, EmptyGrid } }

SlotUploads == { UploadColumn, UploadHeadersOnly }

InitSlots ==
  /\ sheets \in SlotWorkbooks
  /\ pendingPlacement = << >>
  /\ lastMessage = "uploaded"
  /\ tasks = EmptyBag
  /\ events = 0
  /\ \E u \in SlotUploads : pendingUpload = << u >>

NextSlots ==
  \/ events < SlotEvents /\ \E t \in Inputs : HandleSend(t)
  \/ events < SlotEvents /\ HandlePlaceInExcelForChartOrBelow
  \/ events < SlotEvents /\ HandlePlaceInSpecificCell
  \/ events < SlotEvents /\ HandleDontPlace
  \/ events < SlotEvents /\ \E createNew \in BOOLEAN : HandlePlaceOnResultsSheet(createNew)
  \/ events < SlotEvents /\ HandleMergeHorizontally
  \/ events < SlotEvents /\ HandleCancelUpload
  \/ events < SlotEvents /\ HandleAppendBelow
  \/ events < SlotEvents /\ HandleCreateSheet
  \/ \E t \in Running : WriteResultNames(t)
  \/ \E t \in Running : WriteResultAdd(t)
  \/ \E t \in Running : WriteResultRead(t)
  \/ \E t \in Running : WriteResultFlush(t)
  \/ \E t \in Running : InsertChartImage(t)
  \/ \E t \in Running : FindUsedRange(t)
  \/ \E t \in Running : FindCell(t)
  \/ \E t \in Running : PlaceNotFound(t)
  \/ \E t \in Running : PlaceOccupied(t)
  \/ \E t \in Running : PlaceDone(t)
  \/ \E t \in Running : PlaceFailed(t)
  \/ \E t \in Running : ConfirmDone(t)
  \/ \E t \in Running : CellRead(t)
  \/ \E t \in Running : CellWritten(t)
  \/ \E t \in Running : CellReturn(t)
  \/ \E t \in Running : CellFailed(t)
  \/ \E t \in Running : CommandOk(t)
  \/ \E t \in Running : CommandRejected(t)
  \/ \E t \in Running : ResultsNames(t)
  \/ \E t \in Running : ResultsMintNames(t)
  \/ \E t \in Running : ResultsMintAdd(t)
  \/ \E t \in Running : ResultsAppendRead(t)
  \/ \E t \in Running : ResultsAppendFlush(t)
  \/ \E t \in Running : ResultsCreated(t)
  \/ \E t \in Running : ResultsDone(t)
  \/ \E t \in Running : ResultsFailed(t)
  \/ \E t \in Running : MergeRead(t)
  \/ \E t \in Running : MergeFlush(t)
  \/ \E t \in Running : MergeDone(t)
  \/ \E t \in Running : AppendCheck(t)
  \/ \E t \in Running : EmptyRead(t)
  \/ \E t \in Running : EmptyFlush(t)
  \/ \E t \in Running : AppendEmptyDone(t)
  \/ \E t \in Running : VerticalRead(t)
  \/ \E t \in Running : VerticalFlush(t)
  \/ \E t \in Running : AppendVerticalDone(t)
  \/ \E t \in Running : AppendFailed(t)
  \/ \E t \in Running : CreateSheetFlush(t)
  \/ \E t \in Running : CreateSheetRejected(t)
  \/ \E t \in Running : CreateSheetDone(t)

SpecSlots == InitSlots /\ [][NextSlots]_vars

\* a handler of one of the kinds was started, moved or ended by the step
HandlerStepped(kinds) ==
  \E t \in Running \cup BagToSet(tasks') :
    t.kind \in kinds /\ CopiesIn(t, tasks') # CopiesIn(t, tasks)

\* C31: the two pending slots are independent: no upload button and no step of its
\* handler changes the pending result, and no placement button, no text input and no
\* step of a placement handler changes the pending upload.
C31_SlotsIndependent ==
  [][/\ (HandleCancelUpload \/ HandlerStepped(UploadActionKinds))
          => pendingPlacement' = pendingPlacement
     /\ (\/ HandleDontPlace
         \/ HandlePlaceInSpecificCell
         \/ \E t \in Inputs : HandleSend(t)
         \/ HandlerStepped(PlacementKinds))
          => pendingUpload' = pendingUpload
    ]_vars

\* Cancel has cleared the upload while a result was pending, and the result is still
\* pending
C31_Witness ==
  HasPending /\ ~HasUpload /\ lastMessage = "upload_skipped"

\* C32: a pending result is never waiting for a cell address and for an overwrite
\* confirmation at the same time.
C32_OneProtocolState == ~(AwaitingCell /\ AwaitingOverwrite)

\* C33: a pending result appears only when an ok response arrives; a response without
\* data, with ok = false, or a request that threw leaves the pending slot and the
\* sheets as they were, and with nothing pending a non-blank text is sent as a new
\* command.
C33_PendingOnlyFromOkResponse ==
  [][/\ (~HasPending /\ HasPending') => \E t \in Running : CommandOk(t)
     /\ \A t \in Running :
          CommandRejected(t) => pendingPlacement' = pendingPlacement /\ sheets' = sheets
     /\ \A t \in Inputs :
          (HandleSend(t) /\ ~HasPending /\ Trim(t) # << >>)
            => \E u \in BagToSet(tasks') :
                 u.kind = "command" /\ u.text = Trim(t) /\ tasks' = Spawn(u)
    ]_vars

\* the used region of the grid starts at cell A1
UsedStartsAtA1(grid) ==
  UsedRows(grid) # {} /\ MinOf(UsedRows(grid)) = 1 /\ MinOf(UsedCols(grid)) = 1

\* C34: on a sheet whose used region starts at A1 the cell findPlacementCell chose for
\* a matched column is found empty, so the placement goes on to the write and not to
\* the overwrite prompt.
C34_DestinationFree ==
  [][\A t \in Running :
       (FindCell(t) /\ UsedStartsAtA1(ActiveCells))
         => \E u \in BagToSet(tasks') : tasks' = Step(t, u) /\ u.pc = "wr_read"
    ]_vars

\* C35: the name minted for a new results sheet is the name of no sheet of the
\* workbook, and adding a sheet under a name that no sheet has does not fail.
C35_MintedNameFresh ==
  [][\A t \in Running :
       /\ (WriteResultNames(t) \/ ResultsMintNames(t))
            => \E u \in BagToSet(tasks') :
                 tasks' = Step(t, u) /\ u.name \notin Range(SheetNames)
       /\ ((WriteResultAdd(t) \/ ResultsMintAdd(t)) /\ t.name \notin Range(SheetNames))
            => \E u \in BagToSet(tasks') : tasks' = Step(t, u) /\ u.pc # "catch"
    ]_vars

\* C36: one call of insertChartImageOnSheet adds at most one image, whichever of its
\* steps fail.
C36_AtMostOneImage == \A t \in Running : t.added <= 1

\* C37: every cell the horizontal merge writes, header or data, was empty before the
\* write.
C37_MergeWritesEmptyCells ==
  [][\A t \in Running :
       MergeFlush(t)
         => LET block == UploadBlock(t.pu[1])
                column == AddrCol(t.addr) - 1
            IN  \A r \in Rows : \A c \in Cols :
                  (r \in DOMAIN block /\ c - column \in DOMAIN block[1])
                    => ~NonEmpty(ValueOf(ActiveCells[r][c]))
    ]_vars

UploadSuccessMessages ==
  {"written_to_empty_sheet", "data_appended", "merged_horizontally", "sheet_created"}

\* where a handler of an upload button stands when its write has been flushed
UploadWritten == {"empty_done", "vert_done", "merge_done", "create_done"}

\* C38: an upload button reports success only when its handler has written the upload;
\* Append below does not report a write that writeUploadToEmptySheet skipped because it
\* found the sheet not empty.
C38_SuccessOnlyAfterWrite ==
  [][\A t \in Running :
       (t.kind \in UploadActionKinds /\ tasks' = Finish(t)
          /\ lastMessage' \in UploadSuccessMessages)
         => t.pc \in UploadWritten
    ]_vars

====
